---- MODULE Spec2Model ----
(***************************************************************************)
(* Playlist reconciliation of spotichart: the update strategies            *)
(* (core/strategies.py), TrackManager and PlaylistManager (core/) and the  *)
(* orchestrating CreatePlaylistHandler (application/handlers.py), run      *)
(* against a model of the remote playlist API (core/interfaces.py).        *)
(* Every remote call is one step and may succeed or throw.                 *)
(***************************************************************************)
EXTENDS Integers, Sequences, FiniteSets, TLC

\* ------------------------------------------------------------------ bounds
\* longest list that is enumerated exhaustively
MaxShortLen == 3
\* track ids used in the exhaustively enumerated lists: 1..MaxShortId
MaxShortId == 2
\* longest exhaustively enumerated content of the existing playlist
MaxExistingLen == 2
\* long lists have up to MaxBatches full batches plus a tail of TailLen
MaxBatches == 2
TailLen == 50
\* page size the remote uses for playlist_tracks / next
PageSize == 100
\* how often the caller applies the same operation in a row
MaxRounds == 2
\* the clock advances by at most MaxTicks times the cache's time to live
MaxTicks == 2
\* RetryHttpClient is constructed with max_retries in 0..MaxRetries and
\* retry_delay in 1..MaxDelay
MaxRetries == 4
MaxDelay == 2
\* CachingPlaylistOperationsDecorator is constructed with ttl_seconds in
\* 1..MaxTtl
MaxTtl == 2
\* an EventBus holds at most MaxSubscriptions subscriptions at a time
MaxSubscriptions == 3
MaxRows == 3
MaxLimit == 3

\* ------------------------------------------------------- program constants
\* batch_size = 100 (the same literal at strategies.py:70,83,135,
\* handlers.py:292, track_manager.py:64, playlist_manager.py:164)
batch_size_150 == 100 + 50
batch_size == 100
\* PlaylistManager.find_by_name: limit = 50
limit_100 == 50 + 50
limit == 50
\* PlaylistRequestValidator class attributes
MAX_NAME_LENGTH == 100
MAX_TRACK_COUNT == 10000
MIN_TRACK_COUNT == 1

\* ------------------------------------------------------------ pure helpers
Min(a, b) == IF a < b THEN a ELSE b

None == -1

\* Python values held in the caches of the decorator and the repository: a
\* playlist (dict), None, or a list of playlists
PyDict(p) == [type |-> "dict", items |-> <<p>>]
PyNone == [type |-> "NoneType", items |-> <<>>]
PyList(ps) == [type |-> "list", items |-> ps]

\* TrackManager.build_uri / Track.uri: "spotify:track:" + id
build_uri(track_id) == <<"spotify:track:", track_id>>

\* an item of a playlist page whose "track" is null
NoTrack == <<>>

\* Python slice s[i : i + n] (i counted from 0)
Slice_offbyone(s, i, n) == SubSeq(s, i + 2, Min(i + n, Len(s)))
Slice(s, i, n) == SubSeq(s, i + 1, Min(i + n, Len(s)))

ToSet(s) == {s[k] : k \in 1..Len(s)}

\* [item["track"]["uri"] for item in items if item.get("track")]
HasTrack(item) == item.track # NoTrack
TrackUris(items) ==
  LET kept == SelectSeq(items, HasTrack)
  IN  [k \in 1..Len(kept) |-> kept[k].track]

\* strings are sequences of characters; "A" is the only upper-case letter used
lower(c) == IF c = "A" THEN "a" ELSE c
Lower(str) == [k \in 1..Len(str) |-> lower(str[k])]

RECURSIVE LStrip(_)
LStrip(str) == IF str # <<>> /\ str[1] = " " THEN LStrip(Tail(str)) ELSE str
RECURSIVE RStrip(_)
RStrip(str) ==
  IF str # <<>> /\ str[Len(str)] = " " THEN RStrip(SubSeq(str, 1, Len(str) - 1)) ELSE str
\* str.strip()
Strip(str) == RStrip(LStrip(str))

\* name.lower().strip(): the cache key and the comparison key of find_by_name
Normalize(name) == Strip(Lower(name))

\* track ids are integers; two of them stand for the blank strings
EmptyId == 0
BlankId == -1

\* ------------------------------------------------------------ remote model
\* playlist_add_items: the items are appended in the given order
AddItems(items, uris) == items \o [k \in 1..Len(uris) |-> [track |-> uris[k]]]

\* playlist_remove_all_occurrences_of_items: every occurrence of each URI goes
RemoveAllOccurrences(items, uris) ==
  LET gone == ToSet(uris)
      Keep(item) == item.track \notin gone
  IN  SelectSeq(items, Keep)

\* current_user_playlists(limit, offset): one page of the user's playlists
ListPage(all, lim, off) ==
  [items |-> SubSeq(all, off + 1, Min(off + lim, Len(all))),
   next  |-> IF off + lim < Len(all) THEN off + lim ELSE None]

\* one page of playlist_tracks / next, starting at offset off
Page(items, off) ==
  [items |-> SubSeq(items, off + 1, Min(off + PageSize, Len(items))),
   next  |-> IF off + PageSize < Len(items) THEN off + PageSize ELSE None]

\* ------------------------------------------------------------------- state
VARIABLES
  entry,           \* the operation the caller invoked
  pc,              \* position inside it
  playlists,       \* remote: sequence of playlists, id = index
  calls,           \* history: remote calls issued so far, in order
  playlist_id,     \* argument
  track_uris,      \* argument of the strategies
  current_tracks,  \* ReplaceStrategy.update local
  existing_uris,   \* AppendStrategy.update local
  new_tracks,      \* AppendStrategy.update local
  cursor,          \* offset of the page the next read returns
  i,               \* loop index of the running batch loop
  added_count,     \* strategy local
  ret,             \* outcome of the invoked operation
  round,           \* history: how many times the operation was applied
  after_first,     \* history: playlist items after the first application
  before,          \* history: playlist items when the operation was invoked
  tm_track_uris,   \* TrackManager.add_to_playlist argument track_uris
  tm_i,            \* TrackManager.add_to_playlist loop index i
  tm_added_count,  \* TrackManager.add_to_playlist local added_count
  clear_tracks,    \* PlaylistManager.clear local tracks
  clear_i,         \* PlaylistManager.clear loop index i
  offset,          \* PlaylistManager.find_by_name local
  cache,           \* PlaylistCache._cache of the PlaylistManager
  command,         \* CreatePlaylistHandler.handle argument
  chart,           \* the tracks the chart source holds for the region
  request,         \* CreatePlaylistRequest built by handle
  existing,        \* _create_or_update_playlist local
  total_added,     \* _add_tracks local
  errors,          \* _add_tracks local
  was_updated,     \* which of _create_new_playlist / _update_existing_playlist runs
  response,        \* Result returned by handle
  events,          \* history: events published on the event bus
  op_calls,        \* history: IPlaylistOperations / ITrackOperations methods invoked
  now,             \* the clock datetime.now() reads, in hours
  cache_file,      \* content of the cache file, or NoFile
  fetched_at,      \* history: when each cache key was last stored by set
  name,            \* PlaylistManager.find_by_name / PlaylistCache argument
  first_found,     \* history: what the first find_by_name call returned
  first_calls,     \* history: remote calls issued by the first find_by_name call
  max_retries,     \* RetryHttpClient.max_retries
  retry_delay,     \* RetryHttpClient.retry_delay, in seconds
  attempt,         \* RetryHttpClient.fetch / _retry_operation loop variable
  last_exception,  \* RetryPlaylistOperationsDecorator._retry_operation local
  sleeps,          \* history: the arguments of time.sleep, in order
  peer_cache,      \* PlaylistCache._cache of a second process on the same file
  last_writer,     \* history: the process that saved the cache file last, or
                   \* "exited" once a new instance has taken that process's place
  _cache,          \* CachingPlaylistOperationsDecorator._cache
  _ttl,            \* CachingPlaylistOperationsDecorator._ttl, in seconds
  _listeners,      \* EventBus._listeners: event type -> list of listeners
  _global_listeners, \* EventBus._global_listeners
  event,           \* argument of the EventBus operation: event type and listener
  delivered,       \* history: the on_event calls of the publish just made, in order
  _all_playlists_cache, \* CachedPlaylistRepository._all_playlists_cache
  table,           \* KworbChartParser._extract_entries argument: the chart table
  row_limit        \* KworbChartParser._extract_entries argument limit

strategyVars == <<current_tracks, existing_uris, new_tracks, added_count, round, after_first>>
tmVars == <<tm_track_uris, tm_i, tm_added_count>>
clearVars == <<clear_tracks, clear_i>>
handlerVars == <<command, chart, request, existing, total_added, errors, was_updated,
                 response, events, op_calls>>
cacheVars == <<now, cache_file, fetched_at>>
locatorVars == <<name, first_found, first_calls>>
httpVars == <<max_retries, retry_delay, attempt, last_exception, sleeps>>
peerVars == <<peer_cache, last_writer>>
componentVars == <<_cache, _ttl, _listeners, _global_listeners, event, delivered,
                   _all_playlists_cache, table, row_limit>>
vars == <<entry, pc, playlists, calls, playlist_id, track_uris, cursor, i, ret, before,
          strategyVars, tmVars, clearVars, offset, cache, handlerVars, cacheVars,
          locatorVars,
          httpVars, peerVars, componentVars>>

\* ----------------------------------------------------------- PlaylistCache
\* PlaylistCache.__init__: ttl_hours = 24; the clock counts hours
ttl_hours == 24

\* the remote gives every playlist an external URL
external_url(id) == <<"https://open.spotify.com/playlist/", id>>

NoPlaylist == [id |-> 0, name |-> <<>>, url |-> <<>>]
\* the part of a remote playlist object the program uses and caches
PlaylistRef(p) == [id |-> p.id, name |-> p.name, url |-> external_url(p.id)]

\* cache_file of a PlaylistCache constructed with cache_file = None
NoFile == [configured |-> FALSE, entries |-> {}]

\* the cache is a set of entries [key, playlist], at most one per key
\* PlaylistCache.get: self._cache.get(name.lower().strip())
cache_get_raw(c, n) ==
  LET hits == {e \in c : e.key = n}
  IN  IF hits = {} THEN NoPlaylist ELSE (CHOOSE e \in hits : TRUE).playlist
cache_get(c, n) ==
  LET hits == {e \in c : e.key = Normalize(n)}
  IN  IF hits = {} THEN NoPlaylist ELSE (CHOOSE e \in hits : TRUE).playlist

\* PlaylistCache.set, lines 106-107: self._cache[name.lower().strip()] = playlist
cache_set_nothing(c, n, playlist) == c
cache_set_setdefault(c, n, playlist) ==
  IF \E e \in c : e.key = Normalize(n) THEN c
  ELSE c \cup {[key |-> Normalize(n), playlist |-> playlist]}
cache_set(c, n, playlist) ==
  {e \in c : e.key # Normalize(n)} \cup {[key |-> Normalize(n), playlist |-> playlist]}

\* PlaylistCache.remove, lines 121-123
cache_remove_raw(c, n) == {e \in c : e.key # n}
cache_remove(c, n) == {e \in c : e.key # Normalize(n)}

\* PlaylistCache.contains
cache_contains(c, n) == \E e \in c : e.key = Normalize(n)

\* PlaylistCache._save_to_file: every entry of _cache is written with
\* cached_at = now; nothing is written without a configured file
_save_to_file_merged(c, file, t) ==
  IF ~file.configured THEN file
  ELSE [configured |-> TRUE,
        entries |-> {[key |-> e.key, playlist |-> e.playlist, cached_at |-> t] : e \in c}
                      \cup {v \in file.entries : \A e \in c : e.key # v.key}]
_save_to_file(c, file, t) ==
  IF ~file.configured THEN file
  ELSE [configured |-> TRUE,
        entries |-> {[key |-> e.key, playlist |-> e.playlist, cached_at |-> t] : e \in c}]

\* PlaylistCache._load_from_file, lines 44-48: the entries younger than ttl
_load_from_file(file, t) ==
  LET fresh == {v \in file.entries : t - v.cached_at < ttl_hours}
  IN  {[key |-> v.key, playlist |-> v.playlist] : v \in fresh}

\* history: the time at which set last stored each key
Stamp(f, n, t) == {e \in f : e.key # Normalize(n)} \cup {[key |-> Normalize(n), at |-> t]}
StampOf(f, key) == (CHOOSE e \in f : e.key = key).at

\* PlaylistCache.set, lines 106-112, as PlaylistManager calls it: store,
\* then save the whole cache to the file
CacheSet(n, playlist) ==
  /\ cache' = cache_set(cache, n, playlist)
  /\ cache_file' = _save_to_file(cache_set(cache, n, playlist), cache_file, now)
  /\ fetched_at' = Stamp(fetched_at, n, now)
  /\ now' = now

\* ------------------------------------------------- PlaylistRequestValidator
\* validate, lines 45-71: the list of errors of a request
NameErrors_stripped(n) ==
  IF Len(n) = 0 \/ Len(Strip(n)) = 0 THEN <<"Playlist name is required">>
  ELSE IF Len(Strip(n)) > MAX_NAME_LENGTH THEN <<"Playlist name too long">>
  ELSE <<>>
NameErrors(n) ==
  IF Len(n) = 0 \/ Len(Strip(n)) = 0 THEN <<"Playlist name is required">>
  ELSE IF Len(n) > MAX_NAME_LENGTH THEN <<"Playlist name too long">>
  ELSE <<>>
ModeErrors_any(mode) == <<>>
ModeErrors(mode) ==
  IF mode \notin {"replace", "append", "new"} THEN <<"Invalid update mode">> ELSE <<>>
CountErrors(track_ids) ==
  IF Len(track_ids) < MIN_TRACK_COUNT THEN <<"At least 1 track is required">>
  ELSE IF Len(track_ids) > MAX_TRACK_COUNT THEN <<"Too many tracks">>
  ELSE <<>>
IdErrors(track_ids) ==
  IF \E k \in 1..Len(track_ids) : track_ids[k] \in {EmptyId, BlankId}
  THEN <<"Track IDs cannot be empty">> ELSE <<>>
validate_first(req) ==
  LET all == NameErrors(req.name) \o ModeErrors(req.update_mode)
               \o CountErrors(req.track_ids) \o IdErrors(req.track_ids)
  IN  SubSeq(all, 1, Min(1, Len(all)))
validate(req) ==
  NameErrors(req.name) \o ModeErrors(req.update_mode)
    \o CountErrors(req.track_ids) \o IdErrors(req.track_ids)

\* ------------------------------------------------------------------ inputs
ShortIds == 1..MaxShortId

RECURSIVE SeqsUpTo(_, _)
SeqsUpTo(S, n) ==
  IF n = 0 THEN {<<>>}
  ELSE LET shorter == SeqsUpTo(S, n - 1)
       IN  shorter \cup {Append(s, x) : s \in {t \in shorter : Len(t) = n - 1}, x \in S}

\* n consecutive track ids starting after id s, and their URIs
IdRamp(n, s) == [k \in 1..n |-> k + s]
Ramp(n, s) == [k \in 1..n |-> build_uri(k + s)]

LongLens == {batch_size, batch_size + 1, MaxBatches * batch_size + TailLen}
LongUriLists == {Ramp(n, s) : n \in LongLens, s \in {0, TailLen}}
ShortUriLists == SeqsUpTo({build_uri(t) : t \in ShortIds}, MaxShortLen)

AsItems(uris) == [k \in 1..Len(uris) |-> [track |-> uris[k]]]

ShortItemLists ==
  SeqsUpTo({[track |-> build_uri(1)], [track |-> build_uri(2)], [track |-> NoTrack]},
           MaxExistingLen)
LongItemLists ==
  {AsItems(Ramp(n, 0)) : n \in LongLens}
    \cup {AsItems(Ramp(batch_size, 0)) \o <<[track |-> NoTrack]>> \o AsItems(Ramp(batch_size, 0))}

\* the (desired list, existing items) pairs the strategies are run on
Inputs ==
  (ShortUriLists \X ShortItemLists)
    \cup (LongUriLists \X LongItemLists)
    \cup ({<<build_uri(1), build_uri(2), build_uri(3)>>, Ramp(batch_size + 1, 0)} \X LongItemLists)
    \cup (LongUriLists \X {<<>>, AsItems(<<build_uri(1), build_uri(2)>>)})
    \cup ({<<build_uri(1), build_uri(2), build_uri(3)>>, <<build_uri(3), build_uri(1)>>}
            \X {<<>>, AsItems(<<build_uri(1), build_uri(2)>>), AsItems(<<build_uri(3)>>)})

Playlist(id, n, items) == [id |-> id, name |-> n, description |-> <<>>, items |-> items]

\* what the handler is run on
CommandNames == {<<"A">>, <<"b", " ">>, <<" ">>}
Descriptions == {<<>>, <<"d">>}
UpdateModes == {"replace", "append", "new", "sync"}
\* a string of n characters c
Chars(n, c) == [k \in 1..n |-> c]
LongDescription == Chars(301, "d")
Commands ==
  [name : CommandNames, description : Descriptions, update_mode : UpdateModes]
    \cup [name : {<<"A">>}, description : {LongDescription}, update_mode : {"replace", "new"}]
ShortCharts == {<<>>, <<EmptyId>>, <<1, BlankId>>, <<1, 2, 3>>, <<2, 1, 2>>}
LongCharts == {IdRamp(TailLen, 0), IdRamp(MaxBatches * batch_size + TailLen, 0)}
\* the long charts are scraped for the commands named "A"
ChartsFor(cmd) == IF cmd.name = <<"A">> THEN ShortCharts \cup LongCharts ELSE ShortCharts
HandlerItemLists ==
  {<<>>, AsItems(<<build_uri(1), build_uri(2)>>), <<[track |-> NoTrack], [track |-> build_uri(3)]>>,
   AsItems(Ramp(MaxBatches * batch_size + TailLen, TailLen))}
RemoteStates ==
  {<<>>}
    \cup {<<Playlist(1, <<"a">>, its)>> : its \in HandlerItemLists}
    \cup {<<Playlist(1, <<"b">>, <<>>), Playlist(2, <<"A", " ">>, its)>> : its \in HandlerItemLists}

\* what the validator is run on
ValidatorNames ==
  {<<>>, <<" ">>, <<"A">>, <<" ", "b", " ">>, Chars(MAX_NAME_LENGTH, "b"),
   Chars(MAX_NAME_LENGTH + 1, "b"), <<" ">> \o Chars(MAX_NAME_LENGTH, "b"),
   Chars(MAX_NAME_LENGTH + 1, " ")}
ValidatorTrackLists == {<<>>, <<1>>, <<EmptyId>>, <<1, BlankId, 2>>}
LongTrackLists ==
  {IdRamp(MAX_TRACK_COUNT, 0), IdRamp(MAX_TRACK_COUNT + 1, 0),
   <<BlankId>> \o IdRamp(MAX_TRACK_COUNT, 0)}
ValidatorRequests ==
  [name : ValidatorNames, track_ids : ValidatorTrackLists,
   description : {<<>>, LongDescription}, update_mode : UpdateModes \cup {""}]
    \cup [name : {<<>>, <<"A">>}, track_ids : LongTrackLists, description : {<<>>},
          update_mode : {"replace", ""}]

\* what find_by_name is run on: no playlist, one or two playlists, two
\* playlists with the same normalized name, and more than one page of them
LocatorRemotes ==
  {<<>>,
   <<Playlist(1, <<"a">>, <<>>)>>,
   <<Playlist(1, <<"b">>, <<>>), Playlist(2, <<"A", " ">>, <<>>)>>,
   <<Playlist(1, <<"a">>, <<>>), Playlist(2, <<"A">>, <<>>)>>,
   [k \in 1..(limit + 1) |-> Playlist(k, IF k <= limit THEN <<"x">> ELSE <<" ", "a">>, <<>>)]}
\* a cache holding a playlist that is no longer in the user's library
StaleCaches == {{[key |-> <<"a">>, playlist |-> PlaylistRef(Playlist(limit + 2, <<"A">>, <<>>))]}}

\* the in-memory cache after construction: empty, or holding an earlier lookup
CacheStates(remote) ==
  {{}} \cup {{[key |-> Normalize(remote[k].name), playlist |-> PlaylistRef(remote[k])]} :
                k \in 1..Len(remote)}

NoRet == [kind |-> "none", value |-> 0]
NoCommand == [name |-> <<>>, description |-> <<>>, update_mode |-> ""]
NoRequest == [name |-> <<>>, track_ids |-> <<>>, description |-> <<>>, update_mode |-> ""]
NoResponse ==
  [kind |-> "none", error |-> "", errors |-> <<>>, playlist_id |-> 0,
   playlist_url |-> <<>>, tracks_added |-> 0, tracks_failed |-> 0, was_updated |-> FALSE]

\* a remote call in the history: the client method, its playlist, the URIs it
\* carries, whether it succeeded, and the offset of a list-playlists call
Call(op, pid, uris, ok) ==
  [op |-> op, pid |-> pid, uris |-> uris, ok |-> ok, offset |-> None]
ListCall(off, ok) ==
  [op |-> "current_user_playlists", pid |-> 0, uris |-> <<>>, ok |-> ok, offset |-> off]

InitLocals ==
  /\ calls = <<>>
  /\ current_tracks = <<>>
  /\ existing_uris = {}
  /\ new_tracks = <<>>
  /\ cursor = 0
  /\ i = 0
  /\ added_count = 0
  /\ ret = NoRet
  /\ round = 1
  /\ after_first = <<>>
  /\ before = playlists
  /\ tm_i = 0
  /\ tm_added_count = 0
  /\ clear_tracks = <<>>
  /\ clear_i = 0
  /\ offset = 0
  /\ existing = NoPlaylist
  /\ first_found = NoPlaylist
  /\ first_calls = 0
  /\ total_added = 0
  /\ errors = <<>>
  /\ was_updated = FALSE
  /\ response = NoResponse
  /\ events = <<>>
  /\ op_calls = <<>>

\* no cache and no handler take part in the invoked operation
NoCache ==
  /\ cache = {}
  /\ now = 0
  /\ cache_file = NoFile
  /\ fetched_at = {}
NoHandler ==
  /\ command = NoCommand
  /\ chart = <<>>
  /\ request = NoRequest
\* no HTTP client and no second process take part
NoHttp ==
  /\ max_retries = 0
  /\ retry_delay = 0
  /\ attempt = 0
  /\ last_exception = None
  /\ sleeps = <<>>
NoPeer ==
  /\ peer_cache = {}
  /\ last_writer = "none"
NoDecorator ==
  /\ _cache = {}
  /\ _ttl = 0
\* CachedPlaylistRepository.__init__, line 93
NoList == _all_playlists_cache = PyNone
\* no chart table is parsed
NoTable ==
  /\ table = [tbody |-> FALSE, rows |-> <<>>]
  /\ row_limit = 0
\* EventBus.__init__, lines 151-152: no subscriptions
EventTypes == {"PlaylistCreatedEvent", "PlaylistUpdatedEvent"}
NoEvent == [type |-> "", listener |-> ""]
NoBus ==
  /\ _listeners = [t \in EventTypes |-> <<>>]
  /\ _global_listeners = <<>>
  /\ event = NoEvent
  /\ delivered = <<>>

InitStrategy ==
  /\ entry \in {"ReplaceStrategy.update", "AppendStrategy.update"}
  /\ pc = "read"
  /\ \E inp \in Inputs :
        /\ track_uris = inp[1]
        /\ playlists = <<Playlist(1, <<"a">>, inp[2])>>
  /\ playlist_id = 1
  /\ tm_track_uris = <<>>
  /\ name = <<>>
  /\ NoCache
  /\ NoHandler

InitTrackManager ==
  /\ entry = "TrackManager.add_to_playlist"
  /\ pc = "tm_add"
  /\ tm_track_uris \in ShortUriLists \cup LongUriLists
  /\ playlists \in {<<Playlist(1, <<"a">>, its)>> : its \in {<<>>, AsItems(<<build_uri(1)>>)}}
  /\ playlist_id = 1
  /\ track_uris = <<>>
  /\ name = <<>>
  /\ NoCache
  /\ NoHandler

\* a PlaylistCache constructed on its file at time 0: what a save at that
\* time wrote, and the history of those entries
FileOf(c) == _save_to_file(c, [configured |-> TRUE, entries |-> {}], 0)
StampsOf(c) == {[key |-> e.key, at |-> 0] : e \in c}

InitHandler ==
  /\ entry = "CreatePlaylistHandler.handle"
  /\ pc = "get_charts"
  /\ command \in Commands
  /\ chart \in ChartsFor(command)
  /\ request = NoRequest
  /\ playlists \in RemoteStates
  /\ cache \in CacheStates(playlists)
  /\ cache_file = FileOf(cache)
  /\ fetched_at = StampsOf(cache)
  /\ now = 0
  /\ name = <<>>
  /\ playlist_id = 0
  /\ track_uris = <<>>
  /\ tm_track_uris = <<>>

\* PlaylistRequestValidator.validate called on a request
InitValidator ==
  /\ entry = "PlaylistRequestValidator.validate"
  /\ pc = "validate"
  /\ request \in ValidatorRequests
  /\ command = NoCommand
  /\ chart = <<>>
  /\ playlists = <<>>
  /\ NoCache
  /\ name = <<>>
  /\ playlist_id = 0
  /\ track_uris = <<>>
  /\ tm_track_uris = <<>>

\* PlaylistManager.find_by_name called on its own
InitLocator ==
  /\ entry = "PlaylistManager.find_by_name"
  /\ pc = "find_by_name"
  /\ name \in CommandNames
  /\ playlists \in LocatorRemotes
  /\ cache \in CacheStates(playlists) \cup StaleCaches
  /\ cache_file \in {NoFile, FileOf(cache)}
  /\ fetched_at = StampsOf(cache)
  /\ now = 0
  /\ NoHandler
  /\ playlist_id = 0
  /\ track_uris = <<>>
  /\ tm_track_uris = <<>>

\* a PlaylistCache used on its own, with or without a cache file
InitCache ==
  /\ entry = "PlaylistCache"
  /\ pc = "idle"
  /\ cache = {}
  /\ cache_file \in {NoFile, FileOf({})}
  /\ NoPeer
  /\ fetched_at = {}
  /\ now = 0
  /\ name = <<>>
  /\ playlists = <<>>
  /\ NoHandler
  /\ playlist_id = 0
  /\ track_uris = <<>>
  /\ tm_track_uris = <<>>

\* RetryHttpClient.fetch called on a client constructed with max_retries and
\* retry_delay
InitHttp ==
  /\ entry = "RetryHttpClient.fetch"
  /\ pc = "fetch"
  /\ max_retries \in 0..MaxRetries
  /\ retry_delay \in 1..MaxDelay
  /\ attempt = 1
  /\ last_exception = None
  /\ sleeps = <<>>
  /\ playlists = <<>>
  /\ NoCache
  /\ NoHandler
  /\ name = <<>>
  /\ playlist_id = 0
  /\ track_uris = <<>>
  /\ tm_track_uris = <<>>

\* SpotifyService.create_or_update_playlist called with the arguments held in
\* request; track_uris are the URIs it builds from track_ids
ServiceModes == {"replace", "append", "new", "REPLACE"}
ServiceRequests ==
  [name : {<<"A">>}, track_ids : {<<>>, <<1, 2>>, <<1, 2, 3>>}, description : Descriptions,
   update_mode : ServiceModes]
ServiceRemotes ==
  {<<>>, <<Playlist(1, <<"a">>, AsItems(<<build_uri(1)>>))>>,
   <<Playlist(1, <<"a">>, AsItems(<<build_uri(1), build_uri(2)>>))>>}
InitService ==
  /\ entry = "SpotifyService.create_or_update_playlist"
  /\ pc = "find_by_name"
  /\ request \in ServiceRequests
  /\ name = request.name
  /\ track_uris = [k \in 1..Len(request.track_ids) |-> build_uri(request.track_ids[k])]
  /\ tm_track_uris = track_uris
  /\ command = NoCommand
  /\ chart = <<>>
  /\ playlists \in ServiceRemotes
  /\ cache \in CacheStates(playlists)
  /\ cache_file = FileOf(cache)
  /\ fetched_at = StampsOf(cache)
  /\ now = 0
  /\ playlist_id = 0

\* the create command of the CLI run with the options held in command; chart
\* is what the scraper finds for the region
DefaultName == <<"T", "o", "p">>
CliCommands ==
  [name : {<<>>, <<"A">>}, description : {DefaultName},
   update_mode : {"replace", "append", "new"}]
InitCli ==
  /\ entry = "cli.create"
  /\ pc = "cli_create"
  /\ command \in CliCommands
  /\ chart \in {<<>>, <<1, 2>>}
  /\ request = NoRequest
  /\ name = IF command.name = <<>> THEN DefaultName ELSE command.name
  /\ track_uris = [k \in 1..Len(chart) |-> build_uri(chart[k])]
  /\ tm_track_uris = track_uris
  /\ playlists \in ServiceRemotes
  /\ cache \in CacheStates(playlists)
  /\ cache_file = FileOf(cache)
  /\ fetched_at = StampsOf(cache)
  /\ now = 0
  /\ playlist_id = 0

\* two processes, each with a PlaylistCache on the same, still empty file
InitShared ==
  /\ entry = "PlaylistCache, two processes"
  /\ pc = "idle"
  /\ cache = {}
  /\ cache_file = FileOf({})
  /\ NoPeer
  /\ fetched_at = {}
  /\ now = 0
  /\ name = <<>>
  /\ playlists = <<>>
  /\ NoHandler
  /\ playlist_id = 0
  /\ track_uris = <<>>
  /\ tm_track_uris = <<>>

\* PlaylistManager.create called on its own with name and an empty description,
\* followed by find_by_name with the same name
InitCreate ==
  /\ entry = "PlaylistManager.create"
  /\ pc = "pm_create"
  /\ name \in CommandNames
  /\ request = [name |-> name, track_ids |-> <<>>, description |-> <<>>, update_mode |-> ""]
  /\ playlists \in LocatorRemotes
  /\ cache \in CacheStates(playlists) \cup StaleCaches
  /\ cache_file \in {NoFile, FileOf(cache)}
  /\ fetched_at = StampsOf(cache)
  /\ now = 0
  /\ command = NoCommand
  /\ chart = <<>>
  /\ playlist_id = 0
  /\ track_uris = <<>>
  /\ tm_track_uris = <<>>

\* RetryPlaylistOperationsDecorator._retry_operation called on a decorator
\* constructed with max_retries and base_delay (held in retry_delay)
InitRetry ==
  /\ entry = "RetryPlaylistOperationsDecorator._retry_operation"
  /\ pc = "retry"
  /\ max_retries \in 0..MaxRetries
  /\ retry_delay \in 1..MaxDelay
  /\ attempt = 0
  /\ last_exception = None
  /\ sleeps = <<>>
  /\ playlists = <<>>
  /\ NoCache
  /\ NoHandler
  /\ name = <<>>
  /\ playlist_id = 0
  /\ track_uris = <<>>
  /\ tm_track_uris = <<>>

\* a CachingPlaylistOperationsDecorator after construction (lines 357-359),
\* wrapping a service that works on the remote playlists
DecoratorRemotes == {<<>>, <<Playlist(1, <<"a">>, <<>>)>>}
InitDecorator ==
  /\ entry = "CachingPlaylistOperationsDecorator"
  /\ pc = "idle"
  /\ _cache = {}
  /\ _ttl \in 1..MaxTtl
  /\ playlists \in DecoratorRemotes
  /\ NoCache
  /\ NoHandler
  /\ name = <<>>
  /\ playlist_id = 0
  /\ track_uris = <<>>
  /\ tm_track_uris = <<>>

\* an EventBus after construction
InitBus ==
  /\ entry = "EventBus"
  /\ pc = "idle"
  /\ playlists = <<>>
  /\ NoCache
  /\ NoHandler
  /\ name = <<>>
  /\ playlist_id = 0
  /\ track_uris = <<>>
  /\ tm_track_uris = <<>>

\* CachedPlaylistRepository.__init__, lines 83-93, and the name looked up:
\* a PlaylistCache that is empty or holds an earlier lookup
RepositoryNames == {<<"a">>, <<"A">>, <<"b", " ">>}
InitRepository ==
  /\ entry = "CachedPlaylistRepository.find_by_name"
  /\ pc = "repository.find_by_name"
  /\ name \in RepositoryNames
  /\ playlists \in {r \in LocatorRemotes : Len(r) <= 2}
  /\ cache \in CacheStates(playlists)
  /\ cache_file \in {NoFile, FileOf(cache)}
  /\ fetched_at = StampsOf(cache)
  /\ now = 0
  /\ NoHandler
  /\ playlist_id = 0
  /\ track_uris = <<>>
  /\ tm_track_uris = <<>>

\* the chart table KworbChartParser._extract_entries is given: a table
\* without a tbody, or a tbody of up to MaxRows rows; a row is the list of
\* the href attributes of its anchors, an href the list of its parts
TrackHref(id) == <<"../track/", id, ".html">>
ArtistHref(id) == <<"../artist/", id, ".html">>
Rows ==
  {<<>>, <<ArtistHref("a1")>>, <<TrackHref("t1")>>, <<TrackHref("t2")>>,
   <<ArtistHref("a1"), TrackHref("t3")>>}
InitParser ==
  /\ entry = "KworbChartParser._extract_entries"
  /\ pc = "_extract_entries"
  /\ table \in {[tbody |-> FALSE, rows |-> <<>>]}
                 \cup {[tbody |-> TRUE, rows |-> r] : r \in SeqsUpTo(Rows, MaxRows)}
  /\ row_limit \in 1..MaxLimit
  /\ playlists = <<>>
  /\ name = <<>>
  /\ NoCache
  /\ NoHandler
  /\ playlist_id = 0
  /\ track_uris = <<>>
  /\ tm_track_uris = <<>>

Init ==
  /\ \/ /\ InitStrategy \/ InitTrackManager \/ InitHandler \/ InitValidator
             \/ InitLocator
             \/ InitService \/ InitCli
             \/ InitCreate
            \/ InitRepository
        /\ NoHttp
        /\ NoPeer
        /\ NoDecorator
        /\ NoTable
     \/ (InitCache \/ InitShared) /\ NoHttp /\ NoDecorator /\ NoTable
     \/ (InitHttp \/ InitRetry) /\ NoPeer /\ NoDecorator /\ NoTable
     \/ InitDecorator /\ NoHttp /\ NoPeer /\ NoTable
     \/ InitBus /\ NoHttp /\ NoPeer /\ NoDecorator /\ NoTable
     \/ InitParser /\ NoHttp /\ NoPeer /\ NoDecorator
  /\ NoBus
  /\ NoList
  /\ InitLocals

\* ----------------------------------------------------------- SpotifyService
\* the service runs on its own or under the create command of the CLI
Svc == entry \in {"SpotifyService.create_or_update_playlist", "cli.create"}

\* UpdateStrategyFactory.create, lines 166-172: strategies.get(mode.lower())
mode_lower(mode) == IF mode = "REPLACE" THEN "replace" ELSE mode
create(mode) ==
  IF mode_lower(mode) = "replace" THEN "ReplaceStrategy"
  ELSE IF mode_lower(mode) = "append" THEN "AppendStrategy"
  ELSE "ValueError"

\* the strategy that is running: invoked on its own, or created by the
\* service for an existing playlist (spotify_service.py lines 115-125)
Runs(strategy) ==
  \/ entry = strategy \o ".update"
  \/ Svc /\ existing # NoPlaylist /\ create(request.update_mode) = strategy
\* where a finished update returns to
AfterUpdate == IF Svc THEN "svc_details" ELSE "done"

Items(pid) == playlists[pid].items

\* ------------------------------------------------ ReplaceStrategy.update
\* line 64: the URIs collected from one page
CollectUris_none(items) == <<>>
CollectUris_droplast(items) ==
  LET uris == TrackUris(items) IN SubSeq(uris, 1, Len(uris) - 1)
CollectUris(items) == TrackUris(items)

\* lines 61-67: the loop reads on while the page has a next token; then the
\* remove phase, which is skipped when there is nothing to remove
AfterRead_firstpage(result, collected) == IF collected # <<>> THEN "remove" ELSE "add"
AfterRead(result, collected) ==
  IF result.next # None THEN "read"
  ELSE IF collected # <<>> THEN "remove" ELSE "add"

\* lines 59-65: read every page of the current tracks; a throwing read
\* propagates out of update
Replace_Read ==
  /\ Runs("ReplaceStrategy") /\ pc = "read"
  /\ \E ok \in BOOLEAN :
       /\ calls' = Append(calls, Call(IF cursor = 0 THEN "playlist_tracks" ELSE "next",
                                      playlist_id, <<>>, ok))
       /\ IF ok
          THEN LET result == Page(Items(playlist_id), cursor)
                   collected == current_tracks \o CollectUris(result.items)
               IN  /\ current_tracks' = collected
                   /\ cursor' = IF result.next # None THEN result.next ELSE cursor
                   /\ pc' = AfterRead(result, collected)
                   /\ ret' = ret
          ELSE /\ pc' = "done"
               /\ ret' = [kind |-> "raise", value |-> 0]
               /\ UNCHANGED <<current_tracks, cursor>>
  /\ UNCHANGED <<entry, httpVars, peerVars, componentVars, playlists, playlist_id, track_uris, i,
                 before, existing_uris, new_tracks, added_count, round, after_first,
                 tmVars, clearVars, offset, locatorVars, cache, cacheVars, handlerVars>>

\* lines 68-73: remove the current tracks in batches; no try/except, a
\* throwing remove propagates out of update
Replace_Remove ==
  /\ Runs("ReplaceStrategy") /\ pc = "remove"
  /\ i < Len(current_tracks)
  /\ LET batch == Slice(current_tracks, i, batch_size)
     IN  \E ok \in BOOLEAN :
           /\ calls' = Append(calls, Call("playlist_remove_all_occurrences_of_items",
                                          playlist_id, batch, ok))
           /\ IF ok
              THEN /\ playlists' = [playlists EXCEPT ![playlist_id].items =
                                       RemoveAllOccurrences(@, batch)]
                   /\ IF i + batch_size < Len(current_tracks)
                      THEN i' = i + batch_size /\ pc' = "remove"
                      ELSE i' = 0 /\ pc' = "add"
                   /\ ret' = ret
              ELSE /\ pc' = "done"
                   /\ ret' = [kind |-> "raise", value |-> 0]
                   /\ UNCHANGED <<playlists, i>>
  /\ UNCHANGED <<entry, httpVars, peerVars, componentVars, playlist_id, track_uris, cursor, before,
                 strategyVars, tmVars, clearVars, offset, locatorVars, cache, cacheVars,
                 handlerVars>>

\* _add_tracks_in_batches, lines 85-92: one add call per batch; a failed
\* batch is logged and skipped
Replace_Add ==
  /\ Runs("ReplaceStrategy") /\ pc = "add"
  /\ i < Len(track_uris)
  /\ LET batch == Slice(track_uris, i, batch_size)
     IN  \E ok \in BOOLEAN :
           /\ calls' = Append(calls, Call("playlist_add_items", playlist_id, batch, ok))
           /\ IF ok
              THEN /\ playlists' = [playlists EXCEPT ![playlist_id].items = AddItems(@, batch)]
                   /\ added_count' = added_count + Len(batch)
              ELSE UNCHANGED <<playlists, added_count>>
  /\ i' = i + batch_size
  /\ UNCHANGED <<entry, httpVars, peerVars, componentVars, pc, playlist_id, track_uris, cursor, ret,
                 before, current_tracks, existing_uris, new_tracks, round, after_first,
                 tmVars, clearVars, offset, locatorVars, cache, cacheVars, handlerVars>>

\* line 94: return added_count
Replace_Return ==
  /\ Runs("ReplaceStrategy") /\ pc = "add"
  /\ i >= Len(track_uris)
  /\ pc' = AfterUpdate
  /\ ret' = [kind |-> "return", value |-> added_count]
  /\ after_first' = IF round = 1 THEN Items(playlist_id) ELSE after_first
  /\ UNCHANGED <<entry, httpVars, peerVars, componentVars, playlists, calls, playlist_id, track_uris,
                 cursor, i, before, current_tracks, existing_uris, new_tracks,
                 added_count, round, tmVars, clearVars, offset, locatorVars, cache,
                 cacheVars, handlerVars>>

\* the caller applies the same replace update again (same desired list),
\* after an update in which no remote call failed
Replace_Again ==
  /\ entry = "ReplaceStrategy.update" /\ pc = "done"
  /\ ret.kind = "return"
  /\ \A k \in 1..Len(calls) : calls[k].ok
  /\ round < MaxRounds
  /\ round' = round + 1
  /\ pc' = "read"
  /\ current_tracks' = <<>>
  /\ cursor' = 0
  /\ i' = 0
  /\ added_count' = 0
  /\ ret' = NoRet
  /\ UNCHANGED <<entry, httpVars, peerVars, componentVars, playlists, calls, playlist_id, track_uris,
                 before, existing_uris, new_tracks, after_first, tmVars, clearVars,
                 offset, locatorVars, cache, cacheVars, handlerVars>>

\* -------------------------------------------------- AppendStrategy.update
\* line 123: new_tracks = [uri for uri in track_uris if uri not in existing_uris]
NewTracks_nofilter(uris, existing_set) == uris
NewTracks(uris, existing_set) == SelectSeq(uris, LAMBDA uri : uri \notin existing_set)

\* lines 112-127: read every page into the set existing_uris, then filter
Append_Read ==
  /\ Runs("AppendStrategy") /\ pc = "read"
  /\ \E ok \in BOOLEAN :
       /\ calls' = Append(calls, Call(IF cursor = 0 THEN "playlist_tracks" ELSE "next",
                                      playlist_id, <<>>, ok))
       /\ IF ok
          THEN LET result == Page(Items(playlist_id), cursor)
                   collected == existing_uris \cup ToSet(TrackUris(result.items))
                   filtered == NewTracks(track_uris, collected)
               IN  /\ existing_uris' = collected
                   /\ IF result.next # None
                      THEN /\ cursor' = result.next
                           /\ pc' = "read"
                           /\ UNCHANGED <<new_tracks, ret>>
                      ELSE /\ cursor' = cursor
                           /\ new_tracks' = filtered
                           /\ IF filtered = <<>>
                              THEN pc' = AfterUpdate /\ ret' = [kind |-> "return", value |-> 0]
                              ELSE pc' = "add" /\ ret' = ret
          ELSE /\ pc' = "done"
               /\ ret' = [kind |-> "raise", value |-> 0]
               /\ UNCHANGED <<existing_uris, new_tracks, cursor>>
  /\ UNCHANGED <<entry, httpVars, peerVars, componentVars, playlists, playlist_id, track_uris, i,
                 before, current_tracks, added_count, round, after_first, tmVars,
                 clearVars, offset, locatorVars, cache, cacheVars, handlerVars>>

\* lines 137-144: add new_tracks in batches; a failed batch is logged and skipped
Append_Add ==
  /\ Runs("AppendStrategy") /\ pc = "add"
  /\ i < Len(new_tracks)
  /\ LET batch == Slice(new_tracks, i, batch_size)
     IN  \E ok \in BOOLEAN :
           /\ calls' = Append(calls, Call("playlist_add_items", playlist_id, batch, ok))
           /\ IF ok
              THEN /\ playlists' = [playlists EXCEPT ![playlist_id].items = AddItems(@, batch)]
                   /\ added_count' = added_count + Len(batch)
              ELSE UNCHANGED <<playlists, added_count>>
  /\ i' = i + batch_size
  /\ UNCHANGED <<entry, httpVars, peerVars, componentVars, pc, playlist_id, track_uris, cursor, ret,
                 before, current_tracks, existing_uris, new_tracks, round, after_first,
                 tmVars, clearVars, offset, locatorVars, cache, cacheVars, handlerVars>>

\* line 146: return added_count
Append_Return ==
  /\ Runs("AppendStrategy") /\ pc = "add"
  /\ i >= Len(new_tracks)
  /\ pc' = AfterUpdate
  /\ ret' = [kind |-> "return", value |-> added_count]
  /\ UNCHANGED <<entry, httpVars, peerVars, componentVars, playlists, calls, playlist_id, track_uris,
                 cursor, i, before, strategyVars, tmVars, clearVars, offset, locatorVars,
                 cache, cacheVars, handlerVars>>

\* --------------------------------------------- TrackManager.add_to_playlist
\* what the caller of add_to_playlist does with its outcome: the standalone
\* caller keeps it in ret; CreatePlaylistHandler._add_tracks (lines 298-304)
\* counts the batch on return and records an error message on an exception
TM_Outcome_counted(raised, count) ==
  IF entry = "TrackManager.add_to_playlist" \/ Svc
  THEN /\ pc' = IF raised THEN "done" ELSE AfterUpdate
       /\ ret' = [kind |-> IF raised THEN "raise" ELSE "return", value |-> count]
       /\ UNCHANGED <<i, total_added, errors>>
  ELSE /\ pc' = "add_tracks"
       /\ i' = i + batch_size
       /\ total_added' = total_added + Len(Slice(track_uris, i, batch_size))
       /\ errors' = IF raised THEN Append(errors, <<"Failed to add batch", i \div batch_size + 1>>)
                    ELSE errors
       /\ ret' = ret
TM_Outcome_propagated(raised, count) ==
  IF entry = "TrackManager.add_to_playlist" \/ Svc \/ raised
  THEN /\ pc' = IF raised THEN "done" ELSE AfterUpdate
       /\ ret' = [kind |-> IF raised THEN "raise" ELSE "return", value |-> count]
       /\ UNCHANGED <<i, total_added, errors>>
  ELSE /\ pc' = "add_tracks"
       /\ i' = i + batch_size
       /\ total_added' = total_added + Len(Slice(track_uris, i, batch_size))
       /\ errors' = errors
       /\ ret' = ret
TM_Outcome(raised, count) ==
  IF entry = "TrackManager.add_to_playlist" \/ Svc
  THEN /\ pc' = IF raised THEN "done" ELSE AfterUpdate
       /\ ret' = [kind |-> IF raised THEN "raise" ELSE "return", value |-> count]
       /\ UNCHANGED <<i, total_added, errors>>
  ELSE /\ pc' = "add_tracks"
       /\ i' = i + batch_size
       /\ total_added' = IF raised THEN total_added
                         ELSE total_added + Len(Slice(track_uris, i, batch_size))
       /\ errors' = IF raised THEN Append(errors, <<"Failed to add batch", i \div batch_size + 1>>)
                    ELSE errors
       /\ ret' = ret

\* lines 55-57: an empty list returns 0 without any remote call
TM_Empty ==
  /\ pc = "tm_add"
  /\ tm_track_uris = <<>>
  /\ TM_Outcome(FALSE, 0)
  /\ UNCHANGED <<entry, httpVars, peerVars, componentVars, playlists, calls, playlist_id, track_uris,
                 cursor, before, strategyVars, tmVars, clearVars, offset, locatorVars,
                 cache, cacheVars, command, chart, request, existing, was_updated,
                 response, events, op_calls>>

\* lines 59 and 74-76: the loop runs inside the try, so a throwing add call
\* leaves it and is raised as TrackAdditionError
tm_raises_never(ok) == FALSE
tm_raises(ok) == ~ok

\* lines 65-76: one add call per batch; the first failing call raises
\* TrackAdditionError out of the loop
TM_Add ==
  /\ pc = "tm_add"
  /\ tm_i < Len(tm_track_uris)
  /\ LET batch == Slice(tm_track_uris, tm_i, batch_size)
     IN  \E ok \in BOOLEAN :
           /\ calls' = Append(calls, Call("playlist_add_items", playlist_id, batch, ok))
           /\ IF ~tm_raises(ok)
              THEN /\ playlists' = IF ok THEN [playlists EXCEPT ![playlist_id].items =
                                                             AddItems(@, batch)]
                                   ELSE playlists
                   /\ tm_added_count' = tm_added_count + Len(batch)
                   /\ tm_i' = tm_i + batch_size
                   /\ IF tm_i + batch_size < Len(tm_track_uris)
                      THEN UNCHANGED <<pc, ret, i, total_added, errors>>
                      ELSE TM_Outcome(FALSE, tm_added_count + Len(batch))
              ELSE /\ TM_Outcome(TRUE, 0)
                   /\ UNCHANGED <<playlists, tm_added_count, tm_i>>
  /\ UNCHANGED <<entry, httpVars, peerVars, componentVars, playlist_id, track_uris, cursor, before,
                 strategyVars, tm_track_uris, clearVars, offset, locatorVars, cache,
                 cacheVars, command, chart, request, existing, was_updated, response,
                 events, op_calls>>

\* ------------------------------------------------- CreatePlaylistHandler
Failure(error, errs) ==
  [kind |-> "Failure", error |-> error, errors |-> errs, playlist_id |-> 0,
   playlist_url |-> <<>>, tracks_added |-> 0, tracks_failed |-> 0, was_updated |-> FALSE]
Success(pid, url, added, failed, updated, errs) ==
  [kind |-> "Success", error |-> "", errors |-> errs, playlist_id |-> pid,
   playlist_url |-> url, tracks_added |-> added, tracks_failed |-> failed,
   was_updated |-> updated]

\* handle, lines 88-147: scrape, build the request, validate
H_Scrape ==
  /\ entry = "CreatePlaylistHandler.handle" /\ pc = "get_charts"
  /\ \E outcome \in {"success", "failure", "raises"} :
       LET started == Append(events, "ScrapingStarted")
           track_ids == SelectSeq(chart, LAMBDA id : id # EmptyId)
           req == [name |-> command.name, track_ids |-> track_ids,
                   description |-> command.description,
                   update_mode |-> command.update_mode]
       IN  CASE outcome = "failure" ->
                  /\ events' = started
                  /\ response' = Failure("ScrapingError", <<>>)
                  /\ pc' = "done"
                  /\ request' = request
                  /\ name' = name
             [] outcome = "raises" ->
                  /\ events' = started
                  /\ response' = Failure("Exception", <<>>)
                  /\ pc' = "done"
                  /\ request' = request
                  /\ name' = name
             [] outcome = "success" /\ chart = <<>> ->
                  /\ events' = Append(started, "ScrapingCompleted")
                  /\ response' = Failure("ChartScrapingError", <<>>)
                  /\ pc' = "done"
                  /\ request' = request
                  /\ name' = name
             [] outcome = "success" /\ chart # <<>> /\ validate(req) # <<>> ->
                  /\ events' = started \o <<"ScrapingCompleted", "ValidationFailed">>
                  /\ response' = Failure("ValidationError", validate(req))
                  /\ pc' = "done"
                  /\ request' = req
                  /\ name' = name
             [] outcome = "success" /\ chart # <<>> /\ validate(req) = <<>> ->
                  /\ events' = Append(started, "ScrapingCompleted")
                  /\ response' = response
                  /\ pc' = "find_by_name"
                  /\ request' = req
                  /\ name' = req.name
  /\ UNCHANGED <<entry, httpVars, peerVars, componentVars, playlists, calls, playlist_id, track_uris,
                 cursor, i, ret, before, strategyVars, tmVars, clearVars, offset,
                 first_found, first_calls, cache, cacheVars, command, chart, existing,
                 total_added, errors, was_updated, op_calls>>

\* _create_or_update_playlist, lines 157-164: what is done with the result
\* of find_by_name
Dispatch_keep(found) ==
  /\ existing' = found
  /\ IF found # NoPlaylist
     THEN /\ pc' = "update_details"
          /\ playlist_id' = found.id
          /\ was_updated' = TRUE
     ELSE /\ pc' = "create"
          /\ UNCHANGED <<playlist_id, was_updated>>
Dispatch_create(found) ==
  /\ existing' = found
  /\ pc' = "create"
  /\ UNCHANGED <<playlist_id, was_updated>>
Dispatch(found) ==
  LET ex == IF found # NoPlaylist /\ request.update_mode = "new" THEN NoPlaylist ELSE found
  IN  /\ existing' = ex
      /\ IF ex # NoPlaylist
         THEN /\ pc' = "update_details"
              /\ playlist_id' = ex.id
              /\ was_updated' = TRUE
         ELSE /\ pc' = "create"
              /\ UNCHANGED <<playlist_id, was_updated>>

\* create_or_update_playlist, lines 108-125 and 132-139: an existing playlist
\* is updated by the strategy of the mode; UpdateStrategyFactory.create raises
\* ValueError for any other mode, and the except branch adds the tracks to the
\* existing playlist (its clear is for mode "replace" only, for which create
\* does not raise). Lines 146-151: without an existing playlist one is created
Svc_Found(found) ==
  /\ existing' = found
  /\ IF found # NoPlaylist
     THEN /\ playlist_id' = found.id
          /\ was_updated' = TRUE
          /\ pc' = IF create(request.update_mode) = "ValueError" THEN "tm_add" ELSE "read"
     ELSE /\ pc' = "svc_create"
          /\ UNCHANGED <<playlist_id, was_updated>>

\* find_by_name returns found to its caller: the standalone caller keeps it
\* in ret (n_calls remote calls have been issued by then), the handler
\* dispatches on it
FindReturn(found, n_calls) ==
  IF entry \in {"PlaylistManager.find_by_name", "PlaylistManager.create"}
  THEN /\ pc' = "done"
       /\ ret' = [kind |-> "return", value |-> found]
       /\ first_found' = IF round = 1 THEN found ELSE first_found
       /\ first_calls' = IF round = 1 THEN n_calls ELSE first_calls
       /\ UNCHANGED <<existing, playlist_id, was_updated>>
  ELSE IF Svc
  THEN /\ Svc_Found(found)
       /\ UNCHANGED <<ret, first_found, first_calls>>
  ELSE /\ Dispatch(found)
       /\ UNCHANGED <<ret, first_found, first_calls>>

\* PlaylistManager.find_by_name, lines 98-107: the cache is consulted first
PM_FindByName ==
  /\ pc = "find_by_name"
  /\ op_calls' = Append(op_calls, "find_by_name")
  /\ LET cached_playlist == cache_get(cache, name)
     IN  IF cached_playlist # NoPlaylist
         THEN FindReturn(cached_playlist, Len(calls)) /\ offset' = offset
         ELSE /\ pc' = "list"
              /\ offset' = 0
              /\ UNCHANGED <<existing, playlist_id, was_updated, ret, first_found,
                             first_calls>>
  /\ UNCHANGED <<entry, httpVars, peerVars, componentVars, playlists, calls, track_uris, cursor, i,
                 before, strategyVars, tmVars, clearVars, cache, cacheVars, name,
                 command, chart, request, total_added, errors, response, events>>

\* PlaylistManager.find_by_name, lines 109-135: page through the user's
\* playlists; the first match is cached and returned; a throwing call is
\* logged and None is returned
PM_List ==
  /\ pc = "list"
  /\ \E ok \in BOOLEAN :
       /\ calls' = Append(calls, ListCall(offset, ok))
       /\ IF ok
          THEN LET page == ListPage(playlists, limit, offset)
                   hits == {k \in 1..Len(page.items) :
                              Normalize(page.items[k].name) = Normalize(name)}
               IN  IF hits # {}
                   THEN LET item == page.items[CHOOSE k \in hits : \A h \in hits : k <= h]
                        IN  /\ CacheSet(name, PlaylistRef(item))
                            /\ FindReturn(PlaylistRef(item), Len(calls) + 1)
                            /\ offset' = offset
                   ELSE IF page.next # None
                   THEN /\ offset' = offset + limit
                        /\ UNCHANGED <<pc, cache, cacheVars, existing, playlist_id,
                                       was_updated, ret, first_found, first_calls>>
                   ELSE /\ FindReturn(NoPlaylist, Len(calls) + 1)
                        /\ UNCHANGED <<cache, cacheVars, offset>>
          ELSE /\ FindReturn(NoPlaylist, Len(calls) + 1)
               /\ UNCHANGED <<cache, cacheVars, offset>>
  /\ UNCHANGED <<entry, httpVars, peerVars, componentVars, playlists, track_uris, cursor, i, before,
                 strategyVars, tmVars, clearVars, name, command, chart, request,
                 total_added, errors, response, events, op_calls>>

\* the caller looks the same name up again
Find_Again ==
  /\ entry = "PlaylistManager.find_by_name" /\ pc = "done"
  /\ round < MaxRounds
  /\ round' = round + 1
  /\ pc' = "find_by_name"
  /\ ret' = NoRet
  /\ UNCHANGED <<entry, httpVars, peerVars, componentVars, playlists, calls, playlist_id, track_uris,
                 cursor, i, before, current_tracks, existing_uris, new_tracks,
                 added_count, after_first, tmVars, clearVars, offset, locatorVars, cache,
                 cacheVars, handlerVars>>

\* _add_tracks, lines 284-294: convert the ids to URIs and start the batch loop
EnterAdd ==
  /\ track_uris' = [k \in 1..Len(request.track_ids) |-> build_uri(request.track_ids[k])]
  /\ i' = 0
  /\ total_added' = 0
  /\ errors' = <<>>
  /\ pc' = "add_tracks"

\* PlaylistManager.clear starts reading the playlist's tracks
EnterClear ==
  /\ pc' = "clear_read"
  /\ cursor' = 0
  /\ clear_tracks' = <<>>
  /\ clear_i' = 0

\* _update_existing_playlist, lines 229-245: replace clears, append does not,
\* any other mode ("sync") clears
ClearsFirst_always(update_mode) == TRUE
ClearsFirst(update_mode) ==
  IF update_mode = "replace" THEN TRUE
  ELSE IF update_mode = "append" THEN FALSE
  ELSE TRUE

\* PlaylistManager.update_details, lines 187-189: "if not description" returns
\* False before the client is called
update_details_sends_always(description) == TRUE
update_details_sends(description) == description # <<>>

\* _update_existing_playlist, lines 222-245, with PlaylistManager.update_details,
\* lines 187-199: no remote call for an empty description, a failing call is
\* logged and ignored; then the branch on update_mode
H_UpdateDetails ==
  /\ pc = "update_details"
  /\ IF ~update_details_sends(request.description)
     THEN UNCHANGED <<calls, playlists>>
     ELSE \E ok \in BOOLEAN :
            /\ calls' = Append(calls, Call("playlist_change_details", playlist_id, <<>>, ok))
            /\ playlists' = IF ok THEN [playlists EXCEPT ![playlist_id].description =
                                                           request.description]
                            ELSE playlists
  /\ IF ClearsFirst(request.update_mode)
     THEN /\ EnterClear
          /\ op_calls' = op_calls \o <<"update_details", "clear">>
          /\ UNCHANGED <<track_uris, i, total_added, errors>>
     ELSE /\ EnterAdd
          /\ op_calls' = Append(op_calls, "update_details")
          /\ UNCHANGED <<cursor, clearVars>>
  /\ UNCHANGED <<entry, httpVars, peerVars, componentVars, playlist_id, ret, before, strategyVars,
                 tmVars, offset, locatorVars, cache, cacheVars, command, chart, request,
                 existing, was_updated, response, events>>

\* PlaylistManager.clear, lines 150-160: read every page; any exception makes
\* clear return False, and the handler goes on to add
PM_Clear_Read ==
  /\ pc = "clear_read"
  /\ \E ok \in BOOLEAN :
       /\ calls' = Append(calls, Call(IF cursor = 0 THEN "playlist_tracks" ELSE "next",
                                      playlist_id, <<>>, ok))
       /\ IF ok
          THEN LET results == Page(Items(playlist_id), cursor)
                   tracks == clear_tracks \o results.items
               IN  /\ clear_tracks' = tracks
                   /\ IF results.next # None
                      THEN /\ cursor' = results.next
                           /\ UNCHANGED <<pc, clear_i, track_uris, i, total_added, errors>>
                      ELSE IF TrackUris(tracks) # <<>>
                      THEN /\ pc' = "clear_remove"
                           /\ clear_i' = 0
                           /\ UNCHANGED <<cursor, track_uris, i, total_added, errors>>
                      ELSE /\ EnterAdd
                           /\ UNCHANGED <<cursor, clear_i>>
          ELSE /\ EnterAdd
               /\ UNCHANGED <<cursor, clearVars>>
  /\ UNCHANGED <<entry, httpVars, peerVars, componentVars, playlists, playlist_id, ret, before,
                 strategyVars, tmVars, offset, locatorVars, cache, cacheVars, command,
                 chart, request, existing, was_updated, response, events, op_calls>>

\* PlaylistManager.clear, lines 163-174: remove in batches of 100; the first
\* failing call ends clear (return False), and the handler goes on to add
PM_Clear_Remove ==
  /\ pc = "clear_remove"
  /\ LET uris == TrackUris(clear_tracks)
         batch == Slice(uris, clear_i, batch_size)
     IN  /\ clear_i < Len(uris)
         /\ \E ok \in BOOLEAN :
              /\ calls' = Append(calls, Call("playlist_remove_all_occurrences_of_items",
                                             playlist_id, batch, ok))
              /\ IF ok
                 THEN /\ playlists' = [playlists EXCEPT ![playlist_id].items =
                                          RemoveAllOccurrences(@, batch)]
                      /\ IF clear_i + batch_size < Len(uris)
                         THEN /\ clear_i' = clear_i + batch_size
                              /\ UNCHANGED <<pc, track_uris, i, total_added, errors>>
                         ELSE /\ EnterAdd
                              /\ clear_i' = clear_i
                 ELSE /\ EnterAdd
                      /\ UNCHANGED <<playlists, clear_i>>
  /\ UNCHANGED <<entry, httpVars, peerVars, componentVars, playlist_id, cursor, ret, before,
                 strategyVars, tmVars, clear_tracks, offset, locatorVars, cache,
                 cacheVars, command, chart, request, existing, was_updated, response,
                 events, op_calls>>

\* _add_tracks, lines 296-299: the next batch is handed to
\* TrackManager.add_to_playlist
H_AddBatch ==
  /\ entry = "CreatePlaylistHandler.handle" /\ pc = "add_tracks"
  /\ i < Len(track_uris)
  /\ op_calls' = Append(op_calls, "add_to_playlist")
  /\ tm_track_uris' = Slice(track_uris, i, batch_size)
  /\ tm_i' = 0
  /\ tm_added_count' = 0
  /\ pc' = "tm_add"
  /\ UNCHANGED <<entry, httpVars, peerVars, componentVars, playlists, calls, playlist_id, track_uris,
                 cursor, i, ret, before, strategyVars, clearVars, offset, locatorVars,
                 cache, cacheVars, command, chart, request, existing, total_added,
                 errors, was_updated, response, events>>

\* _add_tracks, line 306: tracks_failed = len(track_uris) - total_added
tracks_failed_batches(uris, added) == (Len(uris) - added) \div batch_size
tracks_failed(uris, added) == Len(uris) - added

\* lines 189-195 and 248-255: the event published before Success is returned
published_created(updated) == "PlaylistCreated"
published(updated) == IF updated THEN "PlaylistUpdated" ELSE "PlaylistCreated"

\* _add_tracks, lines 306-308, then lines 188-211 (created) or 247-271
\* (updated): publish the event and return Success
H_Finish ==
  /\ entry = "CreatePlaylistHandler.handle" /\ pc = "add_tracks"
  /\ i >= Len(track_uris)
  /\ LET playlist_url == IF was_updated THEN existing.url ELSE external_url(playlist_id)
     IN  response' = Success(playlist_id, playlist_url, total_added,
                             tracks_failed(track_uris, total_added), was_updated, errors)
  /\ events' = Append(events, published(was_updated))
  /\ pc' = "done"
  /\ UNCHANGED <<entry, httpVars, peerVars, componentVars, playlists, calls, playlist_id, track_uris,
                 cursor, i, ret, before, strategyVars, tmVars, clearVars, offset,
                 locatorVars, cache, cacheVars, command, chart, request, existing,
                 total_added, errors, was_updated, op_calls>>

\* _create_new_playlist, lines 174-186 and 213-215, with PlaylistManager.create,
\* lines 65-84: reading the user id or the create call may throw, which
\* surfaces as PlaylistCreationError and ends the handler with a Failure
PM_Create ==
  /\ pc = "create"
  /\ op_calls' = Append(op_calls, "create")
  /\ \E outcome \in {"created", "user_id raises", "create raises"} :
       LET id == Len(playlists) + 1
           playlist == [id |-> id, name |-> request.name,
                        description |-> request.description, items |-> <<>>]
       IN  IF outcome = "created"
           THEN /\ calls' = Append(calls, Call("user_playlist_create", id, <<>>, TRUE))
                /\ playlists' = Append(playlists, playlist)
                /\ CacheSet(request.name, PlaylistRef(playlist))
                /\ playlist_id' = id
                /\ EnterAdd
                /\ response' = response
           ELSE /\ calls' = IF outcome = "create raises"
                            THEN Append(calls, Call("user_playlist_create", 0, <<>>, FALSE))
                            ELSE calls
                /\ response' = Failure("PlaylistCreationError", <<>>)
                /\ pc' = "done"
                /\ UNCHANGED <<playlists, cache, cacheVars, playlist_id, track_uris, i,
                               total_added, errors>>
  /\ UNCHANGED <<entry, httpVars, peerVars, componentVars, cursor, ret, before, strategyVars, tmVars,
                 clearVars, offset, locatorVars, command, chart, request, existing,
                 was_updated, events>>

\* PlaylistManager.create, lines 65-84, called on its own: the created
\* playlist is stored in the cache and returned; a throwing user id or create
\* call is raised as PlaylistCreationError
PM_Create_Alone ==
  /\ entry = "PlaylistManager.create" /\ pc = "pm_create"
  /\ op_calls' = Append(op_calls, "create")
  /\ \E outcome \in {"created", "user_id raises", "create raises"} :
       LET id == Len(playlists) + 1
           playlist == [id |-> id, name |-> name, description |-> request.description,
                        items |-> <<>>]
       IN  IF outcome = "created"
           THEN /\ calls' = Append(calls, Call("user_playlist_create", id, <<>>, TRUE))
                /\ playlists' = Append(playlists, playlist)
                /\ CacheSet(name, PlaylistRef(playlist))
                /\ ret' = [kind |-> "return", value |-> PlaylistRef(playlist)]
           ELSE /\ calls' = IF outcome = "create raises"
                            THEN Append(calls, Call("user_playlist_create", 0, <<>>, FALSE))
                            ELSE calls
                /\ ret' = [kind |-> "raise", value |-> "PlaylistCreationError"]
                /\ UNCHANGED <<playlists, cache, cacheVars>>
  /\ pc' = "done"
  /\ UNCHANGED <<entry, httpVars, peerVars, componentVars, playlist_id, track_uris, cursor, i, before,
                 strategyVars, tmVars, clearVars, offset, locatorVars, command, chart,
                 request, existing, total_added, errors, was_updated, response, events>>

\* the caller of create looks the name up
Create_ThenFind ==
  /\ entry = "PlaylistManager.create" /\ pc = "done"
  /\ round < MaxRounds
  /\ round' = round + 1
  /\ pc' = "find_by_name"
  /\ UNCHANGED <<entry, httpVars, peerVars, componentVars, playlists, calls, playlist_id, track_uris,
                 cursor, i, ret, before, current_tracks, existing_uris, new_tracks,
                 added_count, after_first, tmVars, clearVars, offset, locatorVars, cache,
                 cacheVars, handlerVars>>

\* ----------------------------------------------------------- SpotifyService
ServiceResult(url, count, updated) ==
  [kind |-> "return",
   value |-> [playlist_url |-> url, added_count |-> count, failed_tracks |-> <<>>,
              was_updated |-> updated]]

\* create_playlist_with_tracks, lines 74-80, with PlaylistManager.create,
\* lines 65-84: a throwing create leaves the service as PlaylistCreationError;
\* with no track ids the result is returned at once
Svc_Create ==
  /\ Svc /\ pc = "svc_create"
  /\ op_calls' = Append(op_calls, "create")
  /\ \E outcome \in {"created", "user_id raises", "create raises"} :
       LET id == Len(playlists) + 1
           playlist == [id |-> id, name |-> request.name,
                        description |-> request.description, items |-> <<>>]
       IN  IF outcome = "created"
           THEN /\ calls' = Append(calls, Call("user_playlist_create", id, <<>>, TRUE))
                /\ playlists' = Append(playlists, playlist)
                /\ CacheSet(request.name, PlaylistRef(playlist))
                /\ playlist_id' = id
                /\ IF request.track_ids = <<>>
                   THEN /\ pc' = "done"
                        /\ ret' = ServiceResult(external_url(id), 0, FALSE)
                   ELSE /\ pc' = "tm_add"
                        /\ ret' = ret
           ELSE /\ calls' = IF outcome = "create raises"
                            THEN Append(calls, Call("user_playlist_create", 0, <<>>, FALSE))
                            ELSE calls
                /\ ret' = [kind |-> "raise", value |-> "PlaylistCreationError"]
                /\ pc' = "done"
                /\ UNCHANGED <<playlists, cache, cacheVars, playlist_id>>
  /\ UNCHANGED <<entry, httpVars, peerVars, componentVars, track_uris, cursor, i, before, strategyVars,
                 tmVars, clearVars, offset, locatorVars, command, chart, request,
                 existing, total_added, errors, was_updated, response, events>>

\* create_or_update_playlist, lines 127-130 and 141-144, with
\* PlaylistManager.update_details: after the update of an existing playlist
\* a non-empty description is sent, a failing call is logged and ignored;
\* create_playlist_with_tracks, lines 82-83, returns without it
Svc_Details ==
  /\ Svc /\ pc = "svc_details"
  /\ IF was_updated
     THEN /\ IF request.description = <<>>
             THEN UNCHANGED <<calls, playlists, op_calls>>
             ELSE /\ op_calls' = Append(op_calls, "update_details")
                  /\ \E ok \in BOOLEAN :
                       /\ calls' = Append(calls, Call("playlist_change_details",
                                                      playlist_id, <<>>, ok))
                       /\ playlists' =
                            IF ok THEN [playlists EXCEPT ![playlist_id].description =
                                                           request.description]
                            ELSE playlists
          /\ ret' = ServiceResult(existing.url, ret.value, TRUE)
     ELSE /\ ret' = ServiceResult(external_url(playlist_id), ret.value, FALSE)
          /\ UNCHANGED <<calls, playlists, op_calls>>
  /\ pc' = "done"
  /\ UNCHANGED <<entry, httpVars, peerVars, componentVars, playlist_id, track_uris, cursor, i, before,
                 strategyVars, tmVars, clearVars, offset, locatorVars, cache, cacheVars,
                 command, chart, request, existing, total_added, errors, was_updated,
                 response, events>>

\* ---------------------------------------------------------------- cli.create
Exit(code) == [kind |-> "exit", value |-> code]

\* create, lines 94-158: missing credentials exit with 1; a scraper or a
\* service factory that raises is caught at lines 175-182 and exits with 1;
\* an empty scrape exits with 0 (sys.exit raises SystemExit, which neither
\* except clause catches); mode "new" goes to create_playlist_with_tracks,
\* any other mode to create_or_update_playlist
CLI_Start ==
  /\ entry = "cli.create" /\ pc = "cli_create"
  /\ \E outcome \in {"no credentials", "scrape raises", "factory raises", "scraped"} :
       IF outcome # "scraped"
       THEN /\ ret' = Exit(1)
            /\ pc' = "exited"
            /\ request' = request
       ELSE IF chart = <<>>
       THEN /\ ret' = Exit(0)
            /\ pc' = "exited"
            /\ request' = request
       ELSE /\ request' = [name |-> name, track_ids |-> chart,
                           description |-> command.description,
                           update_mode |-> command.update_mode]
            /\ pc' = IF command.update_mode = "new" THEN "svc_create" ELSE "find_by_name"
            /\ ret' = ret
  /\ UNCHANGED <<entry, httpVars, peerVars, componentVars, playlists, calls, playlist_id, track_uris,
                 cursor, i, before, strategyVars, tmVars, clearVars, offset, locatorVars,
                 cache, cacheVars, command, chart, existing, total_added, errors,
                 was_updated, response, events, op_calls>>

\* create, lines 160-182: the result is printed and the command ends with
\* exit code 0; an exception of the service is caught and exits with 1
CLI_Exit ==
  /\ entry = "cli.create" /\ pc = "done"
  /\ ret' = Exit(IF ret.kind = "raise" THEN 1 ELSE 0)
  /\ pc' = "exited"
  /\ UNCHANGED <<entry, httpVars, peerVars, componentVars, playlists, calls, playlist_id, track_uris,
                 cursor, i, before, strategyVars, tmVars, clearVars, offset, locatorVars,
                 cache, cacheVars, handlerVars>>

\* ------------------------------------------------ PlaylistRequestValidator
\* validate, line 71: Failure(errors) if errors else Success(request)
V_Validate ==
  /\ entry = "PlaylistRequestValidator.validate" /\ pc = "validate"
  /\ LET errs == validate(request)
     IN  ret' = IF errs # <<>> THEN [kind |-> "Failure", value |-> errs]
                ELSE [kind |-> "Success", value |-> request]
  /\ pc' = "done"
  /\ UNCHANGED <<entry, httpVars, peerVars, componentVars, playlists, calls, playlist_id, track_uris,
                 cursor, i, before, strategyVars, tmVars, clearVars, offset, locatorVars,
                 cache, cacheVars, handlerVars>>

\* ----------------------------------------------------------- PlaylistCache
\* the names the cache is used with, and the playlist stored under each
CacheNames == {<<"A">>, <<" ", "a">>, <<"b", " ">>}
CachePlaylist(n) ==
  PlaylistRef(Playlist(IF Normalize(n) = <<"a">> THEN 1 ELSE 2, n, <<>>))

\* what no operation of the cache changes
cacheFrame ==
  <<entry, httpVars, componentVars, playlists, calls, playlist_id, track_uris, cursor, i, before, strategyVars,
    tmVars, clearVars, offset, first_found, first_calls, handlerVars>>

\* the cache is used by one process, or by two processes on one cache file
CacheRuns == entry \in {"PlaylistCache", "PlaylistCache, two processes"}

\* history: this process has written the cache file that it shares with a
\* second process
Saved ==
  /\ last_writer' = IF entry = "PlaylistCache, two processes" THEN "self" ELSE last_writer
  /\ peer_cache' = peer_cache

\* PlaylistCache.get, lines 88-96: the entry under the key, whatever its age
Cache_Get ==
  /\ CacheRuns
  /\ \E n \in CacheNames :
       /\ name' = n
       /\ ret' = [kind |-> "return", value |-> cache_get(cache, n)]
  /\ pc' = "got"
  /\ UNCHANGED <<cache, cacheVars, cacheFrame, peerVars>>

\* PlaylistCache.set, lines 106-112
Cache_Set ==
  /\ CacheRuns
  /\ \E n \in CacheNames :
       /\ name' = n
       /\ CacheSet(n, CachePlaylist(n))
  /\ Saved
  /\ pc' = "set"
  /\ ret' = NoRet
  /\ UNCHANGED cacheFrame

\* PlaylistCache.remove, lines 121-128: a present key is deleted and the
\* cache saved
Cache_Remove ==
  /\ CacheRuns
  /\ \E n \in CacheNames :
       /\ name' = n
       /\ IF cache_contains(cache, n)
          THEN /\ cache' = cache_remove(cache, n)
               /\ cache_file' = _save_to_file(cache_remove(cache, n), cache_file, now)
               /\ Saved
          ELSE UNCHANGED <<cache, cache_file, peerVars>>
       /\ ret' = [kind |-> "return", value |-> cache_contains(cache, n)]
  /\ pc' = "removed"
  /\ UNCHANGED <<now, fetched_at, cacheFrame>>

\* PlaylistCache.contains, lines 148-149
Cache_Contains ==
  /\ CacheRuns
  /\ \E n \in CacheNames :
       /\ name' = n
       /\ ret' = [kind |-> "return", value |-> cache_contains(cache, n)]
  /\ pc' = "contains"
  /\ UNCHANGED <<cache, cacheVars, cacheFrame, peerVars>>

\* PlaylistCache.clear, lines 132-136
Cache_Clear ==
  /\ CacheRuns
  /\ cache' = {}
  /\ cache_file' = _save_to_file({}, cache_file, now)
  /\ Saved
  /\ pc' = "idle"
  /\ ret' = NoRet
  /\ UNCHANGED <<now, fetched_at, name, cacheFrame>>

\* PlaylistCache.__init__, lines 27-32: a new instance (the next run of the
\* program) starts empty and loads what the file holds
Cache_Init ==
  /\ CacheRuns
  /\ cache' = IF cache_file.configured THEN _load_from_file(cache_file, now) ELSE {}
  /\ pc' = "loaded"
  /\ ret' = NoRet
  /\ last_writer' = IF last_writer = "self" THEN "exited" ELSE last_writer
  /\ UNCHANGED <<cacheVars, name, cacheFrame, peer_cache>>

\* a second process constructs a PlaylistCache on the same file
\* (__init__, lines 27-32)
Peer_Init ==
  /\ entry = "PlaylistCache, two processes"
  /\ peer_cache' = _load_from_file(cache_file, now)
  /\ last_writer' = IF last_writer = "peer" THEN "exited" ELSE last_writer
  /\ UNCHANGED <<pc, ret, name, cache, cacheVars, cacheFrame>>

\* the second process calls set (lines 106-112): it stores the entry in its
\* own map and writes that map to the file
Peer_Set ==
  /\ entry = "PlaylistCache, two processes"
  /\ \E n \in CacheNames :
       /\ peer_cache' = cache_set(peer_cache, n, CachePlaylist(n))
       /\ cache_file' = _save_to_file(cache_set(peer_cache, n, CachePlaylist(n)),
                                      cache_file, now)
       /\ fetched_at' = Stamp(fetched_at, n, now)
  /\ last_writer' = "peer"
  /\ UNCHANGED <<pc, ret, name, cache, now, cacheFrame>>

\* time passes between two operations of the cache
Tick ==
  /\ entry = "PlaylistCache"
  /\ \E d \in {ttl_hours - 1, ttl_hours} :
       /\ now + d <= MaxTicks * ttl_hours
       /\ now' = now + d
  /\ pc' = "idle"
  /\ ret' = NoRet
  /\ UNCHANGED <<cache, cache_file, fetched_at, name, cacheFrame, peerVars>>

\* --------------------------------------------------------- RetryHttpClient
\* fetch, lines 78-81: the time slept after failed attempt number k
backoff_exponential(delay, k) == delay * 2 ^ (k - 1)
backoff(delay, k) == delay * k

\* what fetch leaves alone
httpFrame ==
  <<entry, componentVars, max_retries, retry_delay, last_exception, playlists, playlist_id, track_uris, cursor, i,
    before, strategyVars, tmVars, clearVars, offset, cache, cacheVars, locatorVars,
    handlerVars, peerVars>>

\* fetch, lines 65-81: one pass of the loop over range(1, max_retries + 1).
\* session.get or raise_for_status may raise a RequestException, which is
\* caught: the loop sleeps unless this was the last attempt and goes on.
\* Decoding the body is inside the try block, but a UnicodeDecodeError is
\* not a RequestException and leaves fetch as an exception.
Fetch_Attempt ==
  /\ entry = "RetryHttpClient.fetch" /\ pc = "fetch"
  /\ attempt <= max_retries
  /\ \E outcome \in {"decoded", "RequestException", "UnicodeDecodeError"} :
       /\ calls' = Append(calls, Call("session.get", attempt, <<>>,
                                      outcome # "RequestException"))
       /\ CASE outcome = "decoded" ->
                 /\ ret' = [kind |-> "Success", value |-> "content"]
                 /\ pc' = "done"
                 /\ UNCHANGED <<attempt, sleeps>>
            [] outcome = "UnicodeDecodeError" ->
                 /\ ret' = [kind |-> "raise", value |-> "UnicodeDecodeError"]
                 /\ pc' = "done"
                 /\ UNCHANGED <<attempt, sleeps>>
            [] outcome = "RequestException" ->
                 /\ sleeps' = IF attempt < max_retries
                               THEN Append(sleeps, backoff(retry_delay, attempt))
                               ELSE sleeps
                 /\ attempt' = attempt + 1
                 /\ UNCHANGED <<pc, ret>>
  /\ UNCHANGED httpFrame

\* fetch, lines 83-85: the loop is exhausted
Fetch_Exhausted ==
  /\ entry = "RetryHttpClient.fetch" /\ pc = "fetch"
  /\ attempt > max_retries
  /\ ret' = [kind |-> "Failure", value |-> "ScrapingError"]
  /\ pc' = "done"
  /\ UNCHANGED <<calls, attempt, sleeps, httpFrame>>

\* ------------------------------------------ RetryPlaylistOperationsDecorator
\* __init__ defaults, lines 136-137
max_delay == 10
exponential_base == 2

\* lines 177-179: min(base_delay * exponential_base ** attempt, max_delay)
delay(base_delay, k) == Min(base_delay * exponential_base ^ k, max_delay)

\* the exception the wrapped operation raised in its k-th invocation
ExceptionOf(k) == [type |-> "Exception", invocation |-> k]
\* line 190: raise last_exception; raising None is a TypeError
raise(e) ==
  [kind |-> "raise",
   value |-> IF e = None THEN [type |-> "TypeError", invocation |-> 0] ELSE ExceptionOf(e)]

\* lines 171-188: one pass of the loop over range(max_retries): the result of
\* the operation is returned at once; an exception is kept, and the loop
\* sleeps unless this was the last pass
Retry_Invoke ==
  /\ entry = "RetryPlaylistOperationsDecorator._retry_operation" /\ pc = "retry"
  /\ attempt < max_retries
  /\ \E ok \in BOOLEAN :
       /\ calls' = Append(calls, Call("operation", attempt + 1, <<>>, ok))
       /\ IF ok
          THEN /\ ret' = [kind |-> "return", value |-> attempt + 1]
               /\ pc' = "done"
               /\ UNCHANGED <<attempt, last_exception, sleeps>>
          ELSE /\ last_exception' = attempt + 1
               /\ sleeps' = IF attempt < max_retries - 1
                             THEN Append(sleeps, delay(retry_delay, attempt))
                             ELSE sleeps
               /\ attempt' = attempt + 1
               /\ UNCHANGED <<pc, ret>>
  /\ UNCHANGED <<entry, max_retries, retry_delay, playlists, playlist_id, track_uris,
                 cursor, i, before, strategyVars, tmVars, clearVars, offset, cache,
                 cacheVars, locatorVars, handlerVars, peerVars, componentVars>>

\* line 190: the loop is over
Retry_Raise ==
  /\ entry = "RetryPlaylistOperationsDecorator._retry_operation" /\ pc = "retry"
  /\ attempt >= max_retries
  /\ ret' = raise(last_exception)
  /\ pc' = "done"
  /\ UNCHANGED <<calls, attempt, sleeps, httpFrame>>

\* --------------------------------------- CachingPlaylistOperationsDecorator

\* str(n) for n >= 0
Digit(d) == CASE d = 0 -> "0" [] d = 1 -> "1" [] d = 2 -> "2" [] d = 3 -> "3"
              [] d = 4 -> "4" [] d = 5 -> "5" [] d = 6 -> "6" [] d = 7 -> "7"
              [] d = 8 -> "8" [] d = 9 -> "9"
RECURSIVE str(_)
str(n) == IF n < 10 THEN <<Digit(n)>> ELSE Append(str(n \div 10), Digit(n % 10))

\* lines 391 and 402: the cache keys
get_all_key(lim) == <<"get_all_">> \o str(lim)
find_by_name_key(n) == <<"find_by_name_">> \o n

\* _get_cached, lines 363-371: the value of an entry younger than the time to
\* live; an older entry is deleted; None without an entry
Fresh(e, t, ttl) == t - e.timestamp < ttl
_get_cached(c, key, t, ttl) ==
  LET hits == {e \in c : e.key = key}
  IN  IF hits = {} THEN [value |-> PyNone, cache |-> c]
      ELSE LET e == CHOOSE h \in hits : TRUE
           IN  IF Fresh(e, t, ttl) THEN [value |-> e.value, cache |-> c]
               ELSE [value |-> PyNone, cache |-> c \ {e}]

\* _set_cache, line 375
_set_cache(c, key, value, t) ==
  {e \in c : e.key # key} \cup {[key |-> key, value |-> value, timestamp |-> t]}

\* the wrapped service: what find_by_name and get_all return
WrappedFind(n) ==
  LET hits == {k \in 1..Len(playlists) : Normalize(playlists[k].name) = Normalize(n)}
  IN  IF hits = {} THEN PyNone
      ELSE PyDict(PlaylistRef(playlists[CHOOSE k \in hits : \A h \in hits : k <= h]))
WrappedGetAll(lim) ==
  PyList([k \in 1..Min(lim, Len(playlists)) |-> PlaylistRef(playlists[k])])

\* what no operation of the decorator changes
decoratorFrame ==
  <<entry, _ttl, _listeners, _global_listeners, event, delivered, _all_playlists_cache,
    table, row_limit, httpVars, peerVars, calls, playlist_id, track_uris, cursor, i, before,
    strategyVars, tmVars, clearVars, offset, cache, cacheVars, first_found, first_calls,
    command, chart, request, existing, total_added, errors, was_updated, response,
    events>>

\* a cached read, lines 391-398 and 402-409: a value other than None from
\* _get_cached is returned; otherwise the wrapped service is called, its
\* result stored and returned, and its exception passed on. op_calls holds
\* the calls the operation made on the wrapped service
CachedRead(op, key, result) ==
  LET got == _get_cached(_cache, key, now, _ttl)
  IN  IF got.value # PyNone
      THEN /\ ret' = [kind |-> "return", value |-> got.value]
           /\ _cache' = got.cache
           /\ op_calls' = <<>>
      ELSE \E ok \in BOOLEAN :
             /\ op_calls' = <<op>>
             /\ IF ok
                THEN /\ ret' = [kind |-> "return", value |-> result]
                     /\ _cache' = _set_cache(got.cache, key, result, now)
                ELSE /\ ret' = [kind |-> "raise", value |-> PyNone]
                     /\ _cache' = got.cache

DecoratorNames == {<<"a">>}
Decorator_FindByName ==
  /\ entry = "CachingPlaylistOperationsDecorator"
  /\ \E n \in DecoratorNames :
       /\ name' = n
       /\ CachedRead("find_by_name", find_by_name_key(n), WrappedFind(n))
  /\ pc' = "decorator.find_by_name"
  /\ UNCHANGED <<playlists, decoratorFrame>>

Decorator_GetAll ==
  /\ entry = "CachingPlaylistOperationsDecorator"
  /\ CachedRead("get_all", get_all_key(50), WrappedGetAll(50))
  /\ pc' = "decorator.get_all"
  /\ UNCHANGED <<playlists, name, decoratorFrame>>

\* a write, lines 385-387, 415-416 and 420-421: the wrapped service is called
\* and then the cache emptied; an exception of the call is passed on before
\* that
Write(op, changed) ==
  /\ op_calls' = <<op>>
  /\ \E ok \in BOOLEAN :
       IF ok
       THEN /\ playlists' = changed
            /\ _cache' = {}
            /\ ret' = [kind |-> "return", value |-> PyNone]
       ELSE /\ ret' = [kind |-> "raise", value |-> PyNone]
            /\ UNCHANGED <<playlists, _cache>>

Decorator_Create ==
  /\ entry = "CachingPlaylistOperationsDecorator"
  /\ playlists = <<>>
  /\ Write("create", <<Playlist(1, <<"a">>, <<>>)>>)
  /\ pc' = "decorator.create"
  /\ UNCHANGED <<name, decoratorFrame>>

Decorator_UpdateDetails ==
  /\ entry = "CachingPlaylistOperationsDecorator"
  /\ playlists # <<>>
  /\ Write("update_details", [playlists EXCEPT ![1].description = <<"d">>])
  /\ pc' = "decorator.update_details"
  /\ UNCHANGED <<name, decoratorFrame>>

Decorator_Clear ==
  /\ entry = "CachingPlaylistOperationsDecorator"
  /\ playlists # <<>>
  /\ Write("clear", [playlists EXCEPT ![1].items = <<>>])
  /\ pc' = "decorator.clear"
  /\ UNCHANGED <<name, decoratorFrame>>

\* clear_cache, line 425
Decorator_ClearCache ==
  /\ entry = "CachingPlaylistOperationsDecorator"
  /\ _cache' = {}
  /\ op_calls' = <<>>
  /\ ret' = [kind |-> "return", value |-> PyNone]
  /\ pc' = "decorator.clear_cache"
  /\ UNCHANGED <<playlists, name, decoratorFrame>>

\* a second passes between two operations of the decorator; the clock runs
\* until MaxTicks seconds past the time to live
Decorator_Tick ==
  /\ entry = "CachingPlaylistOperationsDecorator"
  /\ now < _ttl + MaxTicks
  /\ now' = now + 1
  /\ pc' = "idle"
  /\ UNCHANGED <<entry, componentVars, httpVars, peerVars, playlists, calls, playlist_id,
                 track_uris, cursor, i, ret, before, strategyVars, tmVars, clearVars,
                 offset, cache, cache_file, fetched_at, locatorVars, handlerVars>>

\* -------------------------------------------------- CachedPlaylistRepository
\* get_all, lines 168-171: every playlist with a name is set in the cache
RECURSIVE cache_all(_, _)
cache_all(c, ps) ==
  IF ps = <<>> THEN c
  ELSE cache_all(IF Head(ps).name # <<>> THEN cache_set(c, Head(ps).name, PlaylistRef(Head(ps)))
                 ELSE c,
                 Tail(ps))
RECURSIVE stamp_all(_, _, _)
stamp_all(f, ps, t) ==
  IF ps = <<>> THEN f
  ELSE stamp_all(IF Head(ps).name # <<>> THEN Stamp(f, Head(ps).name, t) ELSE f, Tail(ps), t)

\* find_by_name, lines 108-112: the first playlist whose name is the name
\* asked for, compared as written
named(ps, n) ==
  LET ks == {k \in 1..Len(ps) : ps[k].name = n}
  IN  IF ks = {} THEN <<>> ELSE <<ps[CHOOSE k \in ks : \A m \in ks : k <= m]>>

\* CachedPlaylistRepository.find_by_name, lines 95-114, with the get_all
\* (limit = 50) of lines 143-173 it calls on a cache miss; the reader gives
\* the first page of 50 or raises
Repository_FindByName ==
  /\ entry = "CachedPlaylistRepository.find_by_name" /\ pc = "repository.find_by_name"
  /\ round <= MaxRounds
  /\ round' = round + 1
  /\ LET cached == cache_get(cache, name)
     IN  IF cached # NoPlaylist
         THEN /\ ret' = [kind |-> "return", value |-> cached]
              /\ UNCHANGED <<calls, cache, cacheVars, _all_playlists_cache>>
         ELSE \E ok \in BOOLEAN :
                LET listed == _all_playlists_cache # PyNone
                    fetched == IF listed THEN _all_playlists_cache.items
                               ELSE SubSeq(playlists, 1, Min(50, Len(playlists)))
                    all_playlists == SubSeq(fetched, 1, Min(50, Len(fetched)))
                    hit == named(all_playlists, name)
                    listed_cache == IF listed THEN cache ELSE cache_all(cache, fetched)
                    listed_stamps == IF listed THEN fetched_at
                                     ELSE stamp_all(fetched_at, fetched, now)
                    cache_after == IF hit = <<>> THEN listed_cache
                                   ELSE cache_set(listed_cache, name, PlaylistRef(hit[1]))
                IN  /\ listed => ok
                    /\ calls' = IF listed THEN calls ELSE Append(calls, ListCall(0, ok))
                    /\ IF ok
                       THEN /\ _all_playlists_cache' = PyList(fetched)
                            /\ cache' = cache_after
                            /\ cache_file' = IF hit = <<>> /\ (listed \/ fetched = <<>>)
                                             THEN cache_file
                                             ELSE _save_to_file(cache_after, cache_file, now)
                            /\ fetched_at' = IF hit = <<>> THEN listed_stamps
                                             ELSE Stamp(listed_stamps, name, now)
                            /\ now' = now
                            /\ ret' = [kind |-> "return",
                                       value |-> IF hit = <<>> THEN NoPlaylist
                                                 ELSE PlaylistRef(hit[1])]
                       ELSE /\ ret' = [kind |-> "raise", value |-> "SpotifyException"]
                            /\ UNCHANGED <<cache, cacheVars, _all_playlists_cache>>
  /\ UNCHANGED <<entry, pc, httpVars, peerVars, _cache, _ttl, _listeners, _global_listeners,
                 event, delivered, table, row_limit, playlists, playlist_id, track_uris,
                 cursor, i, before, current_tracks, existing_uris, new_tracks, added_count, after_first,
                 tmVars, clearVars, offset, locatorVars, handlerVars>>

\* ---------------------------------------------------------- KworbChartParser
\* tbody.find_all("tr", limit=limit) for limit >= 1: the first limit rows
find_all(rows, n) == SubSeq(rows, 1, Min(n, Len(rows)))

\* href.replace("../track/", "").replace(".html", "").strip()
track_id_of(href) == SelectSeq(href, LAMBDA part : part \notin {"../track/", ".html", " "})
\* _extract_track_id, lines 99-109: the id in the first anchor of the row
\* whose href starts with "../track", or ""
RECURSIVE _extract_track_id(_)
_extract_track_id(row) ==
  IF row = <<>> THEN <<>>
  ELSE IF Head(row) # <<>> /\ Head(Head(row)) = "../track/" THEN track_id_of(Head(row))
  ELSE _extract_track_id(Tail(row))

\* _extract_entries, lines 89-97: the rows found, numbered from 1, that
\* yield a track id
RECURSIVE entries_from(_, _)
entries_from(rows, position) ==
  IF rows = <<>> THEN <<>>
  ELSE LET track_id == _extract_track_id(Head(rows))
           rest == entries_from(Tail(rows), position + 1)
       IN  IF track_id # <<>>
           THEN <<[track_id |-> track_id, position |-> position]>> \o rest
           ELSE rest

\* KworbChartParser._extract_entries, lines 81-97
Parser_ExtractEntries ==
  /\ entry = "KworbChartParser._extract_entries" /\ pc = "_extract_entries"
  /\ ret' = IF ~table.tbody THEN [kind |-> "raise", value |-> "ScrapingError"]
            ELSE [kind |-> "return",
                  value |-> entries_from(find_all(table.rows, row_limit), 1)]
  /\ pc' = "done"
  /\ UNCHANGED <<entry, httpVars, peerVars, componentVars, playlists, calls, playlist_id,
                 track_uris, cursor, i, before, strategyVars, tmVars, clearVars, offset,
                 cache, cacheVars, locatorVars, handlerVars>>

\* ------------------------------------------------------------------ EventBus
Listeners == {"listener1", "listener2"}
Subscriptions == Len(_global_listeners) + Len(_listeners["PlaylistCreatedEvent"])
                   + Len(_listeners["PlaylistUpdatedEvent"])

\* list.remove(x), line 188: the first occurrence goes; ValueError without one
RECURSIVE Remove(_, _)
Remove(s, x) ==
  IF s = <<>> THEN <<>>
  ELSE IF s[1] = x THEN Tail(s)
  ELSE <<s[1]>> \o Remove(Tail(s), x)

\* publish, lines 206-217: on_event is called on each listener of the list in
\* turn; an exception of a listener (those in raising) is logged and the loop
\* goes on
RECURSIVE Notify_stop(_, _)
Notify_stop(listeners, raising) ==
  IF listeners = <<>> THEN <<>>
  ELSE IF listeners[1] \in raising THEN <<[listener |-> listeners[1], raised |-> TRUE]>>
  ELSE <<[listener |-> listeners[1], raised |-> FALSE]>> \o Notify_stop(Tail(listeners), raising)
Notify(listeners, raising) ==
  [k \in 1..Len(listeners) |-> [listener |-> listeners[k], raised |-> listeners[k] \in raising]]

\* what no operation of the bus changes
busFrame ==
  <<entry, _cache, _ttl, _all_playlists_cache, table, row_limit, httpVars, peerVars, playlists, calls, playlist_id, track_uris,
    cursor, i, before, strategyVars, tmVars, clearVars, offset, cache, cacheVars,
    locatorVars, handlerVars>>

\* subscribe, lines 162-165
Bus_Subscribe ==
  /\ entry = "EventBus"
  /\ Subscriptions < MaxSubscriptions
  /\ \E t \in EventTypes, l \in Listeners :
       /\ event' = [type |-> t, listener |-> l]
       /\ _listeners' = [_listeners EXCEPT ![t] = Append(@, l)]
  /\ pc' = "bus.subscribe"
  /\ ret' = NoRet
  /\ delivered' = <<>>
  /\ UNCHANGED <<_global_listeners, busFrame>>

\* subscribe_all, line 175
Bus_SubscribeAll ==
  /\ entry = "EventBus"
  /\ Subscriptions < MaxSubscriptions
  /\ \E l \in Listeners :
       /\ event' = [type |-> "", listener |-> l]
       /\ _global_listeners' = Append(_global_listeners, l)
  /\ pc' = "bus.subscribe_all"
  /\ ret' = NoRet
  /\ delivered' = <<>>
  /\ UNCHANGED <<_listeners, busFrame>>

\* unsubscribe, lines 186-193
Bus_Unsubscribe ==
  /\ entry = "EventBus"
  /\ \E t \in EventTypes, l \in Listeners :
       /\ event' = [type |-> t, listener |-> l]
       /\ _listeners' = [_listeners EXCEPT ![t] = Remove(@, l)]
  /\ pc' = "bus.unsubscribe"
  /\ ret' = NoRet
  /\ delivered' = <<>>
  /\ UNCHANGED <<_global_listeners, busFrame>>

\* publish, lines 202-217: the listeners of type(event), then the global ones
Bus_Publish ==
  /\ entry = "EventBus"
  /\ \E t \in EventTypes, raising \in {{}, {"listener1"}} :
       /\ event' = [type |-> t, listener |-> ""]
       /\ delivered' = Notify(_listeners[t], raising) \o Notify(_global_listeners, raising)
  /\ pc' = "bus.publish"
  /\ ret' = [kind |-> "return", value |-> 0]
  /\ UNCHANGED <<_listeners, _global_listeners, busFrame>>

\* clear, lines 221-222
Bus_Clear ==
  /\ entry = "EventBus"
  /\ _listeners' = [t \in EventTypes |-> <<>>]
  /\ _global_listeners' = <<>>
  /\ event' = NoEvent
  /\ pc' = "bus.clear"
  /\ ret' = NoRet
  /\ delivered' = <<>>
  /\ UNCHANGED busFrame

Next ==
  \/ Replace_Read
  \/ Replace_Remove
  \/ Replace_Add
  \/ Replace_Return
  \/ Replace_Again
  \/ Append_Read
  \/ Append_Add
  \/ Append_Return
  \/ TM_Empty
  \/ TM_Add
  \/ H_Scrape
  \/ PM_FindByName
  \/ PM_List
  \/ H_UpdateDetails
  \/ PM_Clear_Read
  \/ PM_Clear_Remove
  \/ H_AddBatch
  \/ H_Finish
  \/ PM_Create
  \/ PM_Create_Alone
  \/ Create_ThenFind
  \/ Find_Again
  \/ V_Validate
  \/ Cache_Get
  \/ Cache_Set
  \/ Cache_Remove
  \/ Cache_Contains
  \/ Cache_Clear
  \/ Cache_Init
  \/ Tick
  \/ Peer_Init
  \/ Peer_Set
  \/ Svc_Create
  \/ Svc_Details
  \/ CLI_Start
  \/ CLI_Exit
  \/ Fetch_Attempt
  \/ Fetch_Exhausted
  \/ Retry_Invoke
  \/ Retry_Raise
  \/ Decorator_FindByName
  \/ Decorator_GetAll
  \/ Decorator_Create
  \/ Decorator_UpdateDetails
  \/ Decorator_Clear
  \/ Decorator_ClearCache
  \/ Decorator_Tick
  \/ Repository_FindByName
  \/ Parser_ExtractEntries
  \/ Bus_Subscribe
  \/ Bus_SubscribeAll
  \/ Bus_Unsubscribe
  \/ Bus_Publish
  \/ Bus_Clear

Spec == Init /\ [][Next]_vars

\* ---------------------------------------------------------------- claims
AddCalls == SelectSeq(calls, LAMBDA c : c.op = "playlist_add_items")
RemoveCalls == SelectSeq(calls, LAMBDA c : c.op = "playlist_remove_all_occurrences_of_items")
AllOk(cs) == \A k \in 1..Len(cs) : cs[k].ok

RECURSIVE ConcatUris(_)
ConcatUris(cs) == IF cs = <<>> THEN <<>> ELSE cs[1].uris \o ConcatUris(Tail(cs))
RECURSIVE OkSize(_)
OkSize(cs) ==
  IF cs = <<>> THEN 0 ELSE (IF cs[1].ok THEN Len(cs[1].uris) ELSE 0) + OkSize(Tail(cs))

CeilDiv100(n) == (n + 99) \div 100
IsPrefix(a, b) == Len(a) <= Len(b) /\ SubSeq(b, 1, Len(a)) = a
Trackless(items) == SelectSeq(items, LAMBDA item : item.track = NoTrack)
Missing(uris, items) ==
  SelectSeq(uris, LAMBDA u : \A k \in 1..Len(items) : items[k].track # u)

ReplaceDone ==
  entry = "ReplaceStrategy.update" /\ pc = "done" /\ ret.kind = "return"
AppendDone ==
  entry = "AppendStrategy.update" /\ pc = "done" /\ ret.kind = "return"
HandlerSuccess ==
  entry = "CreatePlaylistHandler.handle" /\ pc = "done" /\ response.kind = "Success"

\* C1 (as stated): after a replace update in which every remote call
\* succeeded, the playlist holds exactly desired_uris, in order, and the
\* returned count is len(desired_uris)
C1_ReplaceExactOriginal ==
  (ReplaceDone /\ AllOk(calls)) =>
     /\ Items(playlist_id) = AsItems(track_uris)
     /\ ret.value = Len(track_uris)

\* C1 (amended): after a replace update in which every remote call succeeded,
\* the playlist holds the items without a track object it had before (the
\* read skips them), followed by exactly desired_uris in order, and the
\* returned count is len(desired_uris)
C1_ReplaceExact ==
  (ReplaceDone /\ AllOk(calls)) =>
     /\ Items(playlist_id) = Trackless(before[playlist_id].items) \o AsItems(track_uris)
     /\ ret.value = Len(track_uris)

C1_Witness ==
  /\ ReplaceDone /\ AllOk(calls) /\ round = 1
  /\ Len(track_uris) = 3 /\ track_uris[1] = track_uris[3] /\ track_uris[1] # track_uris[2]
  /\ before[playlist_id].items = AsItems(<<track_uris[2], track_uris[1]>>)

\* C2: applying the same replace update again, every remote call succeeding,
\* leaves the playlist as it was after the first application
C2_ReplaceIdempotent ==
  (ReplaceDone /\ AllOk(calls) /\ round >= 2) => Items(playlist_id) = after_first

C2_Witness ==
  /\ ReplaceDone /\ AllOk(calls) /\ round = 2
  /\ Len(track_uris) > 100
  /\ before[playlist_id].items # <<>>
  /\ Len(RemoveCalls) >= 3

\* C3: an append update sends to add-tracks exactly the desired URIs that are
\* not in the playlist, in original order, and returns their number when
\* every add call succeeds
C3_AppendDedup ==
  AppendDone =>
     LET new == Missing(track_uris, before[playlist_id].items)
     IN  /\ ConcatUris(AddCalls) = new
         /\ AllOk(AddCalls) => ret.value = Len(new)

C3_Witness ==
  /\ AppendDone
  /\ before[playlist_id].items = AsItems(<<build_uri(1), build_uri(2)>>)
  /\ track_uris = <<build_uri(1), build_uri(2), build_uri(3)>>
  /\ ConcatUris(AddCalls) = <<build_uri(3)>>
  /\ ret.value = 1

\* C4: the handler in append mode on an existing playlist sends to add-tracks
\* only the desired URIs missing from the playlist, and tracks_added counts
\* only those
C4_HandlerAppendDedup ==
  (HandlerSuccess /\ request.update_mode = "append" /\ response.was_updated) =>
     LET new == Missing(track_uris, before[playlist_id].items)
     IN  /\ ConcatUris(AddCalls) = new
         /\ AllOk(AddCalls) => response.tracks_added = Len(new)

\* C5: an append update (the strategy or the handler's append branch) issues
\* no remove-tracks call and leaves every item the playlist had in place
C5_AppendNeverRemoves ==
  (entry = "AppendStrategy.update"
     \/ (entry = "CreatePlaylistHandler.handle" /\ command.update_mode = "append")) =>
     /\ RemoveCalls = <<>>
     /\ \A pid \in 1..Len(before) : IsPrefix(before[pid].items, playlists[pid].items)

C5_Witness ==
  /\ HandlerSuccess /\ request.update_mode = "append" /\ response.was_updated
  /\ before[playlist_id].items # <<>>
  /\ \E k \in 1..Len(calls) : ~calls[k].ok
  /\ \E k \in 1..Len(AddCalls) : AddCalls[k].ok

\* C6: every remote add-tracks or remove-tracks call carries between 1 and
\* 100 URIs
C6_BatchBounds ==
  \A k \in 1..Len(calls) :
     calls[k].op \in {"playlist_add_items", "playlist_remove_all_occurrences_of_items"} =>
        (Len(calls[k].uris) >= 1 /\ Len(calls[k].uris) <= 100)

C6_Witness ==
  /\ HandlerSuccess /\ request.update_mode = "replace" /\ response.was_updated
  /\ Len(track_uris) > 200
  /\ Len(RemoveCalls) >= 3 /\ Len(RemoveCalls[1].uris) = 100
  /\ Len(AddCalls) >= 3 /\ Len(AddCalls[1].uris) = 100

\* C7: adding n >= 1 URIs issues exactly ceil(n/100) add-tracks calls, all but
\* the last with exactly 100 URIs, and the batches concatenated in call order
\* are the input list
Batched(adds, input) ==
  /\ Len(adds) = CeilDiv100(Len(input))
  /\ \A k \in 1..(Len(adds) - 1) : Len(adds[k].uris) = 100
  /\ ConcatUris(adds) = input
C7_BatchPartition ==
  /\ (ReplaceDone /\ round = 1 /\ Len(track_uris) >= 1) => Batched(AddCalls, track_uris)
  /\ (entry = "TrackManager.add_to_playlist" /\ pc = "done" /\ ret.kind = "return"
        /\ Len(tm_track_uris) >= 1) => Batched(AddCalls, tm_track_uris)

C7_Witness ==
  /\ ReplaceDone /\ round = 1
  /\ Len(track_uris) > 200
  /\ Len(AddCalls) >= 3
  /\ Len(AddCalls[1].uris) = 100 /\ Len(AddCalls[2].uris) = 100
  /\ Len(AddCalls[Len(AddCalls)].uris) < 100

\* C8: a failed add batch does not stop the remaining batches and is not
\* counted: the added count is the total size of the batches whose call
\* succeeded
C8_FailedBatchSkipped ==
  /\ HandlerSuccess =>
       /\ response.tracks_added = OkSize(AddCalls)
       /\ Len(AddCalls) = CeilDiv100(Len(track_uris))
  /\ (ReplaceDone /\ round = 1) =>
       /\ ret.value = OkSize(AddCalls)
       /\ Len(AddCalls) = CeilDiv100(Len(track_uris))
  /\ AppendDone =>
       /\ ret.value = OkSize(AddCalls)
       /\ Len(AddCalls) = CeilDiv100(Len(new_tracks))

C8_Witness ==
  /\ HandlerSuccess
  /\ Len(AddCalls) >= 3
  /\ ~AddCalls[1].ok /\ AddCalls[2].ok /\ ~AddCalls[3].ok
  /\ response.tracks_added = 100

\* C9: when a remove-tracks batch fails during a replace update, the remaining
\* remove batches are still issued and the add phase is still carried out
C9_RemoveFailureContinues ==
  /\ (entry = "ReplaceStrategy.update" /\ pc = "done" /\ round = 1 /\ ~AllOk(RemoveCalls)) =>
       /\ Len(RemoveCalls) = CeilDiv100(Len(current_tracks))
       /\ Len(AddCalls) = CeilDiv100(Len(track_uris))
  /\ (entry = "CreatePlaylistHandler.handle" /\ pc = "done" /\ request.update_mode = "replace"
        /\ ~AllOk(RemoveCalls)) =>
       /\ Len(RemoveCalls) = CeilDiv100(Len(TrackUris(clear_tracks)))
       /\ Len(AddCalls) = CeilDiv100(Len(request.track_ids))

\* C10: with update_mode "new" and a valid request the handler invokes create
\* exactly once (at most one remote create call), invokes no clear and no
\* update_details, issues no remove-tracks or change-details call, leaves every
\* playlist that existed untouched, and a Success has was_updated = false
OpCount(op) == Len(SelectSeq(op_calls, LAMBDA o : o = op))
C10_NewAlwaysCreates ==
  (entry = "CreatePlaylistHandler.handle" /\ pc = "done" /\ request.update_mode = "new"
     /\ validate(request) = <<>>) =>
     /\ OpCount("create") = 1
     /\ Len(SelectSeq(calls, LAMBDA c : c.op = "user_playlist_create")) <= 1
     /\ OpCount("clear") = 0 /\ OpCount("update_details") = 0
     /\ \A k \in 1..Len(calls) :
          calls[k].op \notin {"playlist_remove_all_occurrences_of_items",
                              "playlist_change_details"}
     /\ \A pid \in 1..Len(before) : playlists[pid] = before[pid]
     /\ response.kind = "Success" =>
          (~response.was_updated /\ response.playlist_id = Len(before) + 1
             /\ Len(SelectSeq(calls, LAMBDA c : c.op = "user_playlist_create")) = 1)

C10_Witness ==
  /\ HandlerSuccess /\ request.update_mode = "new"
  /\ \E pid \in 1..Len(before) :
        /\ Normalize(before[pid].name) = Normalize(request.name)
        /\ before[pid].items # <<>>
  /\ \E k \in 1..Len(calls) : calls[k].op = "current_user_playlists" /\ calls[k].ok
  /\ request.description # <<>>
  /\ response.tracks_added = 3

Handler == entry = "CreatePlaylistHandler.handle"
HandlerDone == Handler /\ pc = "done"
CreateCalls == SelectSeq(calls, LAMBDA c : c.op = "user_playlist_create")
\* the URIs of the chart's tracks that have an id, in chart order
ChartUris ==
  LET ids == SelectSeq(chart, LAMBDA id : id # EmptyId)
  IN  [k \in 1..Len(ids) |-> build_uri(ids[k])]

\* C11: for update_mode replace or append the handler invokes create exactly
\* when find_by_name returned nothing: with an existing playlist no create is
\* issued and the Success carries that playlist's URL and was_updated = true;
\* with none, create is invoked once and a Success has was_updated = false,
\* the add calls carry the chart's URIs in chart order, and when they all
\* succeed tracks_added is their number and tracks_failed is 0
C11_LocateOrCreate ==
  (HandlerDone /\ request.update_mode \in {"replace", "append"}
     /\ OpCount("find_by_name") = 1) =>
     /\ existing # NoPlaylist =>
          /\ OpCount("create") = 0 /\ CreateCalls = <<>>
          /\ response.kind = "Success" /\ response.was_updated
          /\ response.playlist_id = existing.id
          /\ response.playlist_url = external_url(existing.id)
     /\ existing = NoPlaylist =>
          /\ OpCount("create") = 1 /\ Len(CreateCalls) <= 1
          /\ response.kind = "Success" =>
               /\ Len(CreateCalls) = 1 /\ ~response.was_updated
               /\ response.playlist_id = Len(before) + 1
               /\ ConcatUris(AddCalls) = ChartUris
               /\ AllOk(AddCalls) =>
                    /\ response.tracks_added = Len(ChartUris)
                    /\ response.tracks_failed = 0
                    /\ Items(response.playlist_id) = AsItems(ChartUris)

C11_Witness ==
  /\ HandlerSuccess /\ request.update_mode = "replace"
  /\ before = <<>> /\ existing = NoPlaylist
  /\ Len(chart) = TailLen
  /\ response.tracks_added = Len(chart) /\ response.tracks_failed = 0
  /\ ~response.was_updated
  /\ Len(CreateCalls) = 1

\* the claims' own reading of a valid request
NameOk(req) == Len(Strip(req.name)) >= 1 /\ Len(req.name) <= 100
ModeOk(req) == req.update_mode \in {"replace", "append", "new"}
CountOk(req) == Len(req.track_ids) >= 1 /\ Len(req.track_ids) <= 10000
IdsOk(req) == \A k \in 1..Len(req.track_ids) : req.track_ids[k] \notin {EmptyId, BlankId}
Valid(req) == NameOk(req) /\ ModeOk(req) /\ CountOk(req) /\ IdsOk(req)

\* the request the handler builds from its command and the scraped chart
RequestOf(cmd, tracks) ==
  [name |-> cmd.name, track_ids |-> SelectSeq(tracks, LAMBDA id : id # EmptyId),
   description |-> cmd.description, update_mode |-> cmd.update_mode]
ScrapeCompleted == \E k \in 1..Len(events) : events[k] = "ScrapingCompleted"

\* C12: when the scrape fails, returns no track, or the request is invalid,
\* handle ends with a Failure (ChartScrapingError for no tracks, the list of
\* validation errors for an invalid request) without any find_by_name lookup
\* and without any remote call
C12_EarlyFailure ==
  (HandlerDone /\ (~ScrapeCompleted \/ chart = <<>> \/ ~Valid(RequestOf(command, chart)))) =>
     /\ response.kind = "Failure"
     /\ calls = <<>> /\ op_calls = <<>> /\ playlists = before
     /\ (ScrapeCompleted /\ chart = <<>>) => response.error = "ChartScrapingError"
     /\ (ScrapeCompleted /\ chart # <<>>) =>
          /\ response.error = "ValidationError"
          /\ response.errors # <<>>

C12_Witness ==
  /\ HandlerDone /\ ScrapeCompleted
  /\ chart = <<1, BlankId>> /\ command.update_mode = "sync"
  /\ Len(response.errors) = 2
  /\ before # <<>>

\* C13: handle never lets an exception out: until it has returned it can
\* always take a step, and what it returns is a Success (created or updated)
\* or a Failure (scraping, validation or an unexpected error)
Terminal ==
  \/ response.kind = "Success"
  \/ response.kind = "Failure"
       /\ response.error \in {"ScrapingError", "ChartScrapingError", "ValidationError",
                               "Exception", "PlaylistCreationError"}
C13_HandleNeverRaises ==
  Handler =>
     /\ ret.kind # "raise"
     /\ pc = "done" => Terminal
     /\ pc # "done" => (response = NoResponse /\ ENABLED Next)

C13_Witness ==
  /\ HandlerSuccess /\ response.was_updated
  /\ \E k \in 1..Len(calls) : calls[k].op = "playlist_tracks" /\ ~calls[k].ok
  /\ \E k \in 1..Len(calls) : calls[k].op = "playlist_change_details" /\ ~calls[k].ok
  /\ AddCalls # <<>> /\ \A k \in 1..Len(AddCalls) : ~AddCalls[k].ok
  /\ response.tracks_added = 0

ValidatorDone == entry = "PlaylistRequestValidator.validate" /\ pc = "done"

\* C14: validate returns Success exactly when the name is non-blank after
\* trimming and has at most 100 characters, the mode is replace, append or
\* new, there are 1 to 10000 track ids and none of them is blank; otherwise
\* it returns Failure with a non-empty list of errors
C14_ValidateExact ==
  ValidatorDone =>
     /\ ret.kind = "Success" <=> Valid(request)
     /\ ret.kind = "Success" => ret.value = request
     /\ ret.kind # "Success" => (ret.kind = "Failure" /\ ret.value # <<>>)

C14_Witness ==
  /\ ValidatorDone /\ ret.kind = "Failure"
  /\ Len(request.name) = 101 /\ Len(Strip(request.name)) = 100
  /\ request.update_mode = "new" /\ request.track_ids = <<1>>

\* C15: every violated check (name, update mode, track count, blank track id)
\* contributes one error to the Failure, so an empty name with an empty track
\* list and an unknown mode gives exactly 3 errors
Violations(req) ==
  (IF NameOk(req) THEN 0 ELSE 1) + (IF ModeOk(req) THEN 0 ELSE 1)
    + (IF CountOk(req) THEN 0 ELSE 1) + (IF IdsOk(req) THEN 0 ELSE 1)
C15_AllErrorsReported ==
  (ValidatorDone /\ ret.kind = "Failure") => Len(ret.value) = Violations(request)

C15_Witness ==
  /\ ValidatorDone /\ ret.kind = "Failure"
  /\ request.name = <<>> /\ request.track_ids = <<>> /\ request.update_mode = "sync"
  /\ Len(ret.value) = 3

\* C16: a request whose description has more than 300 characters does not
\* pass validation and never reaches the create or update path
C16_LongDescriptionRejected ==
  /\ (ValidatorDone /\ Len(request.description) > 300) => ret.kind = "Failure"
  /\ (Handler /\ Len(command.description) > 300) =>
       (OpCount("find_by_name") = 0 /\ OpCount("create") = 0
          /\ OpCount("update_details") = 0)

Locator == entry = "PlaylistManager.find_by_name"
LocatorDone == Locator /\ pc = "done"
ListCalls == SelectSeq(calls, LAMBDA c : c.op = "current_user_playlists")
\* the position of the first playlist of the library with the looked-up name
Matches == {k \in 1..Len(playlists) : Normalize(playlists[k].name) = Normalize(name)}
FirstMatch == CHOOSE k \in Matches : \A h \in Matches : k <= h

\* C17 (as stated): two consecutive find_by_name calls with the same name,
\* no time passing between them, issue at most one list-playlists call in
\* total
C17_TwoLookupsOneCallOriginal ==
  (LocatorDone /\ round = 2) => Len(ListCalls) <= 1

\* C17 (amended): when the first of consecutive find_by_name calls with the
\* same name returns a playlist, the later calls return the same playlist
\* without any remote call; the first call issued none (cache hit) or one
\* list-playlists call per page of 50 up to the page holding the match
C17_TwoLookupsOneCall ==
  (LocatorDone /\ round >= 2 /\ first_found # NoPlaylist) =>
     /\ Len(calls) = first_calls
     /\ Len(ListCalls) = first_calls
     /\ ret.value = first_found
     /\ \/ first_calls = 0
        \/ Matches # {} /\ first_calls = (FirstMatch - 1) \div 50 + 1

C17_Witness ==
  /\ LocatorDone /\ round = 2
  /\ first_found # NoPlaylist /\ ret.value = first_found
  /\ Len(playlists) > 50
  /\ first_calls = 2 /\ Len(ListCalls) = 2

\* C18: when the cache holds an entry under the trimmed, lower-cased name,
\* find_by_name returns that entry at once, without any remote call
C18_CacheHitNoRemote ==
  [][(Locator /\ pc = "find_by_name") =>
       \A e \in cache :
          e.key = Strip(Lower(name)) =>
             /\ pc' = "done"
             /\ ret' = [kind |-> "return", value |-> e.playlist]
             /\ calls' = calls]_vars

C18_Witness ==
  /\ LocatorDone /\ round = 1
  /\ name = <<"b", " ">>
  /\ calls = <<>>
  /\ ret.value = PlaylistRef(Playlist(1, <<"b">>, <<>>))
  /\ Len(playlists) = 2

\* C19: PlaylistCache.get returns a playlist only if its entry was stored
\* less than the time to live ago, also in an instance that has stayed alive
C19_ExpiredNeverReturned ==
  (entry = "PlaylistCache" /\ pc = "got" /\ ret.value # NoPlaylist) =>
     now - StampOf(fetched_at, Normalize(name)) < ttl_hours

\* C20: every entry of the cache file carries the time at which that entry
\* was itself last stored, whatever was stored, removed or cleared since, and
\* a load keeps only the entries stored less than the time to live ago
C20_OwnTimestamp ==
  /\ \A v \in cache_file.entries : v.cached_at = StampOf(fetched_at, v.key)
  /\ (entry = "PlaylistCache" /\ pc = "loaded") =>
       \A e \in cache : now - StampOf(fetched_at, e.key) < ttl_hours

\* ------------------------------------------------------------------- C21
SameKey(n1, n2) == Strip(Lower(n1)) = Strip(Lower(n2))
CacheOp(label) == entry = "PlaylistCache" /\ pc = label

\* C21: names that differ only in letter case or in leading and trailing
\* blanks are one key: after set(n1, p) every such n2 is contained and gets p,
\* after remove(n1) no such n2 is contained, and get(n2) and contains(n2)
\* answer from the entry stored under the trimmed, lower-cased form of n2
C21_OneKeyPerNormalForm ==
  /\ CacheOp("set") =>
       \A n2 \in CacheNames :
          SameKey(n2, name) =>
             /\ cache_contains(cache, n2)
             /\ cache_get(cache, n2) = CachePlaylist(name)
  /\ CacheOp("removed") =>
       /\ ret.value = TRUE => \A e \in cache : ~SameKey(e.playlist.name, name)
       /\ \A n2 \in CacheNames :
            SameKey(n2, name) =>
               ~cache_contains(cache, n2) /\ cache_get(cache, n2) = NoPlaylist
  /\ CacheOp("got") =>
       /\ \A e \in cache : SameKey(e.playlist.name, name) => ret.value = e.playlist
       /\ ret.value # NoPlaylist => \E e \in cache : e.playlist = ret.value
  /\ CacheOp("contains") =>
       ret.value = (\E e \in cache : SameKey(e.playlist.name, name))

\* get(" a") returns what set("A", p) stored
C21_Witness ==
  /\ CacheOp("got")
  /\ name = <<" ", "a">>
  /\ ret.value = CachePlaylist(<<"A">>)
  /\ \E e \in fetched_at : e.key = <<"b">>

\* ------------------------------------------------------------------- C22
ListFailed == \E k \in 1..Len(calls) : calls[k].op = "current_user_playlists" /\ ~calls[k].ok
LastListFailed ==
  /\ calls # <<>>
  /\ calls[Len(calls)].op = "current_user_playlists" /\ ~calls[Len(calls)].ok

\* C22: a list-playlists call that throws during find_by_name surfaces as a
\* failure of the lookup, told apart from not-found: find_by_name does not
\* return None for it, and the handler does not go on to create a playlist
\* as if there were none of that name
C22_FailedLookupSurfaces ==
  /\ (LocatorDone /\ LastListFailed) => ret # [kind |-> "return", value |-> NoPlaylist]
  /\ (Handler /\ ListFailed) => OpCount("create") = 0

\* ------------------------------------------------------------------- C23
Http == entry = "RetryHttpClient.fetch"
Gets == SelectSeq(calls, LAMBDA c : c.op = "session.get")
FailedGets == SelectSeq(calls, LAMBDA c : c.op = "session.get" /\ ~c.ok)

Service == entry = "SpotifyService.create_or_update_playlist"

\* C24: create_or_update_playlist called with update_mode "new" leaves every
\* playlist that existed as it was (tracks and description), and when it
\* returns it has created one new playlist and reports was_updated = False
C24_ServiceNewCreatesFresh ==
  (Service /\ request.update_mode = "new") =>
     /\ \A pid \in 1..Len(before) : playlists[pid] = before[pid]
     /\ (pc = "done" /\ ret.kind = "return") =>
          (~ret.value.was_updated /\ Len(playlists) = Len(before) + 1)

\* ------------------------------------------------------------------- C25
CliExited == entry = "cli.create" /\ pc = "exited"

\* C25: the create command ends with exit code 0 or 1; it ends with 1 when it
\* fails before the service is called (missing credentials, a scraper that
\* raises, a scrape that finds no tracks), and with 0 only when the user has
\* a playlist of the requested name afterwards
C25_ExitCodes ==
  CliExited =>
     /\ ret.value \in {0, 1}
     /\ request = NoRequest => ret.value = 1
     /\ ret.value = 0 =>
          \E pid \in 1..Len(playlists) : Normalize(playlists[pid].name) = Normalize(name)

\* ------------------------------------------------------------------- C26
Stored(file) == {[key |-> v.key, playlist |-> v.playlist] : v \in file.entries}
Keys(c) == {e.key : e \in c}

\* C26: with two processes on one cache file, the file holds exactly the
\* in-memory map of the process that saved last: nothing of what the other
\* process stored survives unless the last writer holds it too
C26_LastWriterWins ==
  entry = "PlaylistCache, two processes" =>
     /\ last_writer = "self" => Stored(cache_file) = cache
     /\ last_writer = "peer" => Stored(cache_file) = peer_cache
     /\ last_writer = "none" => cache_file.entries = {}

\* this process stored "b " and saved it; the second process, which never
\* loaded it, stored "A" and saved: the entry for "b" is gone from the file
C26_Witness ==
  /\ entry = "PlaylistCache, two processes"
  /\ last_writer = "peer"
  /\ Keys(cache) = {<<"b">>}
  /\ Keys(peer_cache) = {<<"a">>}
  /\ Keys(cache_file.entries) = {<<"a">>}
  /\ \E e \in fetched_at : e.key = <<"b">>

\* ------------------------------------------------------------------- C27
FailedAddCalls == SelectSeq(calls, LAMBDA c : c.op = "playlist_add_items" /\ ~c.ok)
RECURSIVE TotalSize(_)
TotalSize(cs) == IF cs = <<>> THEN 0 ELSE Len(Head(cs).uris) + TotalSize(Tail(cs))

\* C27: in every Success response tracks_added and tracks_failed are not
\* negative and add up to the number of track ids of the request,
\* tracks_failed is the total size of the add batches that failed, and errors
\* holds one message for each of them
C27_ResponseCounts ==
  HandlerSuccess =>
     /\ response.tracks_added >= 0
     /\ response.tracks_failed >= 0
     /\ response.tracks_added + response.tracks_failed = Len(request.track_ids)
     /\ response.tracks_failed = TotalSize(FailedAddCalls)
     /\ Len(response.errors) = Len(FailedAddCalls)

\* 250 tracks: the batches of 100 and 50 fail, the other batch of 100 is added
C27_Witness ==
  /\ HandlerSuccess
  /\ Len(request.track_ids) = 250
  /\ response.tracks_added = 100
  /\ response.tracks_failed = 150
  /\ Len(response.errors) = 2

\* ------------------------------------------------------------------- C28
\* the phase a remote call of a replace update belongs to
Phase(c) ==
  IF c.op \in {"playlist_tracks", "next"} THEN 1
  ELSE IF c.op = "playlist_remove_all_occurrences_of_items" THEN 2
  ELSE 3
ReadCalls == SelectSeq(calls, LAMBDA c : Phase(c) = 1)
Pages(n) == IF n = 0 THEN 1 ELSE (n + PageSize - 1) \div PageSize

\* C28: a replace update issues its remote calls one after the other in the
\* order read, remove, add: one read per page of the playlist (the first by
\* playlist_tracks, the others by next) before any other call, then the
\* remove batches, then the add batches, which carry the desired list in
\* list order
C28_ReplaceCallOrder ==
  (entry = "ReplaceStrategy.update" /\ round = 1) =>
     /\ \A j, k \in 1..Len(calls) : j < k => Phase(calls[j]) <= Phase(calls[k])
     /\ \A k \in 1..Len(calls) :
          /\ calls[k].op = "playlist_tracks" <=> k = 1
          /\ k < Len(calls) => (calls[k].ok \/ Phase(calls[k]) = 3)
     /\ (Len(calls) > Len(ReadCalls) \/ (pc = "done" /\ ret.kind = "return")) =>
          Len(ReadCalls) = Pages(Len(before[playlist_id].items))
     /\ IsPrefix(ConcatUris(AddCalls), track_uris)
     /\ (pc = "done" /\ ret.kind = "return") => ConcatUris(AddCalls) = track_uris

\* a playlist of two pages replaced by a list of more than two batches: two
\* reads, then two removes, then three adds
C28_Witness ==
  /\ entry = "ReplaceStrategy.update" /\ round = 1 /\ pc = "done"
  /\ Len(ReadCalls) = 2
  /\ Len(RemoveCalls) = 2
  /\ Len(AddCalls) = 3
  /\ Phase(calls[2]) = 1 /\ Phase(calls[3]) = 2 /\ Phase(calls[5]) = 3

\* ------------------------------------------------------------------- C29
\* the number of pages of 50 the library has (an empty library has one)
Pages50 == IF playlists = <<>> THEN 1 ELSE (Len(playlists) + 49) \div 50

\* C29: a lookup that misses the cache requests pages of 50 at offsets 0, 50,
\* 100, ... in order; it requests a further page only after a page without a
\* match that has a next token; it returns the first match, stored in the
\* cache, or not-found after the last page; the number of requests is bounded
\* by the number of pages, so the lookup ends
C29_Pagination ==
  (Locator /\ round = 1) =>
     /\ \A k \in 1..Len(calls) :
          /\ calls[k].op = "current_user_playlists"
          /\ calls[k].offset = 50 * (k - 1)
     /\ \A k \in 1..(Len(calls) - 1) :
          /\ calls[k].ok
          /\ Matches = {} \/ FirstMatch > 50 * k
          /\ 50 * k < Len(playlists)
     /\ Len(calls) <= Pages50
     /\ pc = "list" => (offset = 50 * Len(calls) /\ Len(calls) < Pages50)
     /\ (pc = "done" /\ calls # <<>> /\ calls[Len(calls)].ok) =>
          IF Matches # {}
          THEN /\ ret.value = PlaylistRef(playlists[FirstMatch])
               /\ Len(calls) = (FirstMatch - 1) \div 50 + 1
               /\ [key |-> Strip(Lower(name)), playlist |-> ret.value] \in cache
          ELSE /\ ret.value = NoPlaylist
               /\ Len(calls) = Pages50

\* the match is the 51st playlist: requests at offsets 0 and 50
C29_Witness ==
  /\ LocatorDone /\ round = 1
  /\ Len(calls) = 2
  /\ calls[1].offset = 0 /\ calls[2].offset = 50
  /\ ret.value = PlaylistRef(playlists[51])

\* ------------------------------------------------------------------- C30
ChangeDetailsCalls == SelectSeq(calls, LAMBDA c : c.op = "playlist_change_details")

\* C30: the handler issues the remote change-details call only on the update
\* path and only for a non-empty description: at most one call, for the
\* existing playlist; with an empty description, and on the create path,
\* there is none and the description of every existing playlist stays as it
\* was; a call that succeeds sets the description to the one supplied
C30_DetailsOnlyWhenSupplied ==
  Handler =>
     /\ Len(ChangeDetailsCalls) <= 1
     /\ ChangeDetailsCalls # <<>> =>
          /\ request.description # <<>>
          /\ was_updated
          /\ ChangeDetailsCalls[1].pid = existing.id
          /\ ChangeDetailsCalls[1].ok =>
               playlists[existing.id].description = request.description
     /\ (ChangeDetailsCalls = <<>> \/ ~ChangeDetailsCalls[1].ok) =>
          \A pid \in 1..Len(before) : playlists[pid].description = before[pid].description
     /\ (HandlerSuccess /\ was_updated /\ request.description # <<>>) =>
          Len(ChangeDetailsCalls) = 1

\* an update with a description: the call is made and the description set
C30_Witness ==
  /\ HandlerSuccess /\ was_updated
  /\ request.description = <<"d">>
  /\ Len(ChangeDetailsCalls) = 1 /\ ChangeDetailsCalls[1].ok
  /\ playlists[existing.id].description = <<"d">>
  /\ before[existing.id].description = <<>>

\* ---------------------------------------------------------------------------
\* PlaylistManager.create run on its own
Creating == entry = "PlaylistManager.create"
\* the playlist a successful create added to the remote
Created == PlaylistRef(playlists[Len(playlists)])

\* C31: a step of PlaylistManager.create that returns leaves the cache with
\* exactly one entry for the normalized name, holding the created playlist;
\* a step that raises raises PlaylistCreationError and leaves the cache and
\* its file as they were; and the find_by_name that follows a successful
\* create returns the created playlist without any remote call
C31_CreateIsCached ==
  [][Creating =>
       /\ pc = "pm_create" /\ ret'.kind = "return" =>
            /\ ret'.value = Created'
            /\ {e \in cache' : e.key = Normalize(name)}
                 = {[key |-> Normalize(name), playlist |-> Created']}
            /\ {e \in cache' : e.key # Normalize(name)}
                 = {e \in cache : e.key # Normalize(name)}
       /\ pc = "pm_create" /\ ret'.kind # "return" =>
            /\ ret' = [kind |-> "raise", value |-> "PlaylistCreationError"]
            /\ cache' = cache /\ cache_file' = cache_file
            /\ playlists' = playlists
       /\ pc = "find_by_name" /\ Len(playlists) > Len(before) =>
            /\ pc' = "done"
            /\ ret' = [kind |-> "return", value |-> Created]
            /\ calls' = calls]_vars
\* the created playlist took the place of an earlier entry for the name and
\* the following find_by_name returned it
C31_Witness ==
  /\ Creating /\ pc = "done" /\ round = 2
  /\ Len(playlists) = 2 /\ Normalize(playlists[1].name) = Normalize(name)
  /\ ret.value = Created /\ Created.id = 2
  /\ ListCalls = <<>>

\* ---------------------------------------------------------------------------
\* TrackManager.add_to_playlist run on its own
Adding == entry = "TrackManager.add_to_playlist"
OkAddCalls == SelectSeq(calls, LAMBDA c : c.op = "playlist_add_items" /\ c.ok)

\* C32: in TrackManager.add_to_playlist a failed add call is the last call
\* that is issued and the operation then ends raising; the batches sent
\* before it were sent in order, and the playlist holds what it held at the
\* start followed by exactly those batches
C32_StopsAtFirstFailure ==
  Adding =>
    /\ \A k \in 1..Len(calls) : ~calls[k].ok => k = Len(calls) /\ pc = "done"
    /\ FailedAddCalls # <<>> => ret.kind = "raise"
    /\ ret.kind = "raise" => FailedAddCalls # <<>>
    /\ ConcatUris(OkAddCalls) = SubSeq(tm_track_uris, 1, Len(ConcatUris(OkAddCalls)))
    /\ Items(playlist_id) = before[playlist_id].items \o AsItems(ConcatUris(OkAddCalls))
\* the third batch of 250 URIs failed: two batches stay, the tail was not sent
C32_Witness ==
  /\ Adding /\ pc = "done" /\ ret.kind = "raise"
  /\ Len(tm_track_uris) = 250
  /\ Len(calls) = 3 /\ Len(OkAddCalls) = 2
  /\ Len(Items(playlist_id)) = Len(before[playlist_id].items) + 200

\* ---------------------------------------------------------------------------
Retrying == entry = "RetryPlaylistOperationsDecorator._retry_operation"
Invocations == SelectSeq(calls, LAMBDA c : c.op = "operation")

\* C33: _retry_operation invokes the operation at most max_retries times;
\* every invocation but the last one made has failed; it returns exactly
\* after an invocation that succeeded, with that invocation's result; and
\* when it raises, max_retries invocations have failed and what it raises is
\* the exception of the last of them
C33_BoundedRetry ==
  Retrying =>
    /\ Len(Invocations) <= max_retries
    /\ \A k \in 1..(Len(Invocations) - 1) : ~Invocations[k].ok
    /\ pc = "done" =>
         /\ ret.kind \in {"return", "raise"}
         /\ ret.kind = "return" =>
              Invocations[Len(Invocations)].ok /\ ret.value = Len(Invocations)
         /\ ret.kind = "raise" =>
              /\ Len(Invocations) = max_retries
              /\ \A k \in 1..Len(Invocations) : ~Invocations[k].ok
              /\ ret.value = ExceptionOf(max_retries)

\* ---------------------------------------------------------------------------
Decorating == entry = "CachingPlaylistOperationsDecorator"
\* the operation of the decorator that has just been applied, and the cache
\* key of a read
Reads == {"decorator.find_by_name", "decorator.get_all"}
Writes == {"decorator.create", "decorator.update_details", "decorator.clear"}
KeyOf(op, n) == IF op = "decorator.find_by_name" THEN find_by_name_key(n) ELSE get_all_key(50)
\* the entries a read of the key finds: those younger than the time to live,
\* and those that have reached it
Young(key) == {e \in _cache : e.key = key /\ now - e.timestamp < _ttl}
Old(key) == {e \in _cache : e.key = key /\ now - e.timestamp >= _ttl}

\* C34: a get_all or find_by_name whose key has an entry younger than
\* ttl_seconds (stored by an earlier read, with no write since) returns
\* without calling the wrapped service; a read whose key has no such entry,
\* in particular one whose entry has reached ttl_seconds, calls the wrapped
\* service; and a create, update_details or clear that returns, like
\* clear_cache, leaves the cache empty
C34_DecoratorCache ==
  [][Decorating =>
       /\ pc' \in Reads =>
            /\ Young(KeyOf(pc', name')) # {} => op_calls' = <<>>
            /\ Young(KeyOf(pc', name')) = {} => op_calls' # <<>>
            /\ Old(KeyOf(pc', name')) # {} => op_calls' # <<>>
       /\ pc' \in Writes /\ ret'.kind = "return" => _cache' = {}
       /\ pc' = "decorator.clear_cache" => _cache' = {}]_vars

\* ---------------------------------------------------------------------------
Bus == entry = "EventBus"
ListenersOf(deliveries) == [k \in 1..Len(deliveries) |-> deliveries[k].listener]
Count(s, x) == Len(SelectSeq(s, LAMBDA y : y = x))
Others(s, x) == SelectSeq(s, LAMBDA y : y # x)
\* the members of a list in the order of their first occurrence
RECURSIVE Distinct(_)
Distinct(s) ==
  IF s = <<>> THEN <<>>
  ELSE Distinct(SubSeq(s, 1, Len(s) - 1))
         \o (IF \E k \in 1..(Len(s) - 1) : s[k] = s[Len(s)] THEN <<>> ELSE <<s[Len(s)]>>)
Cleared == _global_listeners = <<>> /\ \A t \in EventTypes : _listeners[t] = <<>>

\* C35 as stated: publish calls on_event once on every listener subscribed
\* to the type of the event, in subscription order, and then once on every
\* global listener, and returns whatever the listeners raise; after
\* unsubscribe the listener is not subscribed to that type; after clear
\* nobody is subscribed
C35_PublishOncePerListener ==
  [][Bus =>
       /\ pc' = "bus.publish" =>
            /\ ListenersOf(delivered') =
                 Distinct(_listeners[event'.type]) \o Distinct(_global_listeners)
            /\ ret'.kind = "return"
       /\ pc' = "bus.unsubscribe" =>
            Count(_listeners'[event'.type], event'.listener) = 0
       /\ pc' = "bus.clear" => Cleared']_vars

\* C35, amended: publish calls on_event once for every subscription to the
\* type of the event, in subscription order, and then once for every global
\* subscription, whatever the listeners raise, and returns; unsubscribe
\* removes the earliest subscription of the listener to that type, if there
\* is one, and nothing else; after clear nobody is subscribed
C35_PublishOncePerSubscription ==
  [][Bus =>
       /\ pc' = "bus.publish" =>
            /\ ListenersOf(delivered') = _listeners[event'.type] \o _global_listeners
            /\ ret'.kind = "return"
            /\ _listeners' = _listeners /\ _global_listeners' = _global_listeners
       /\ pc' = "bus.unsubscribe" =>
            LET before_ == _listeners[event'.type]
                after_ == _listeners'[event'.type]
                l == event'.listener
            IN  /\ Count(after_, l) = IF Count(before_, l) = 0 THEN 0 ELSE Count(before_, l) - 1
                /\ Others(after_, l) = Others(before_, l)
                /\ Count(before_, l) > 0 =>
                     \E k \in 1..Len(before_) :
                        /\ before_[k] = l
                        /\ \A j \in 1..(k - 1) : before_[j] # l
                        /\ after_ = SubSeq(before_, 1, k - 1) \o SubSeq(before_, k + 1, Len(before_))
                /\ \A t \in EventTypes \ {event'.type} : _listeners'[t] = _listeners[t]
                /\ _global_listeners' = _global_listeners
       /\ pc' = "bus.clear" => Cleared']_vars
\* the first listener raised, and the second listener and the global one
\* were still called
C35_Witness ==
  /\ Bus /\ pc = "bus.publish"
  /\ event.type = "PlaylistCreatedEvent"
  /\ _listeners["PlaylistCreatedEvent"] = <<"listener1", "listener2">>
  /\ _listeners["PlaylistUpdatedEvent"] = <<>>
  /\ _global_listeners = <<"listener1">>
  /\ delivered = <<[listener |-> "listener1", raised |-> TRUE],
                   [listener |-> "listener2", raised |-> FALSE],
                   [listener |-> "listener1", raised |-> TRUE]>>
  /\ ret.kind = "return"

\* ---------------------------------------------------------------------------
Outcomes == {"PlaylistCreated", "PlaylistUpdated"}
ScrapeEvents == <<"ScrapingStarted", "ScrapingCompleted">>

\* C36: the events of one run of handle are ScrapingStarted, then
\* ScrapingCompleted unless the scrape failed or raised, then either
\* ValidationFailed, exactly when the validator rejects the request, or one
\* of PlaylistCreated and PlaylistUpdated, exactly when the run has returned
\* Success (PlaylistUpdated for an updated playlist), by which time every
\* batch has been handed to add_to_playlist
C36_EventOrder ==
  Handler =>
    /\ events \in {<<>>, <<"ScrapingStarted">>, ScrapeEvents,
                    Append(ScrapeEvents, "ValidationFailed")}
                     \cup {Append(ScrapeEvents, e) : e \in Outcomes}
    /\ pc # "get_charts" => events # <<>>
    /\ (pc = "done" /\ response.error \in {"ScrapingError", "Exception"}) =>
         events = <<"ScrapingStarted">>
    /\ events = Append(ScrapeEvents, "ValidationFailed") <=>
         (request # NoRequest /\ validate(request) # <<>>)
    /\ Len(events) = 3 /\ events[3] \in Outcomes <=> HandlerSuccess
    /\ HandlerSuccess =>
         /\ events[3] = "PlaylistUpdated" <=> response.was_updated
         /\ OpCount("add_to_playlist") = CeilDiv100(Len(track_uris))
\* an update in three batches of which one failed
C36_Witness ==
  /\ HandlerSuccess
  /\ events = Append(ScrapeEvents, "PlaylistUpdated")
  /\ OpCount("add_to_playlist") = 3
  /\ Len(FailedAddCalls) = 1
  /\ response.tracks_failed = 100

\* ---------------------------------------------------------------------------
\* _update_existing_playlist is running: from its first statement to the end
\* of the run
Updating == Handler /\ was_updated

\* C37: whenever _update_existing_playlist runs, the update_mode of the
\* request is replace or append (the validator rejects every mode but
\* replace, append and new, and new never keeps the playlist that was found)
C37_SyncBranchUnreachable ==
  Updating => request.update_mode \in {"replace", "append"}
\* a replace request has reached _update_existing_playlist and cleared
C37_Witness ==
  /\ Updating /\ pc = "add_tracks"
  /\ request.update_mode = "replace"
  /\ OpCount("clear") = 1
  /\ existing.id = playlist_id

\* ---------------------------------------------------------------------------
\* what an update of the strategies leaves in a playlist that held items and
\* how many tracks it reports, every remote call succeeding (claims C1, C3)
StrategyItems(mode, items, uris) ==
  IF mode = "replace" THEN Trackless(items) \o AsItems(uris)
  ELSE items \o AsItems(Missing(uris, items))
StrategyCount(mode, items, uris) ==
  IF mode = "replace" THEN Len(uris) ELSE Len(Missing(uris, items))
\* the user had a playlist of that name when the operation was invoked
HadPlaylist(n) == \E k \in 1..Len(before) : Normalize(before[k].name) = Normalize(n)
\* the outcome both entry points are to produce: the playlist of the name is
\* updated as the strategy of the mode updates it, or a created playlist
\* holds the tracks
SameOutcome(updated, count) ==
  /\ updated = HadPlaylist(request.name)
  /\ IF updated
     THEN /\ Items(playlist_id) =
               StrategyItems(request.update_mode, before[playlist_id].items, track_uris)
          /\ count = StrategyCount(request.update_mode, before[playlist_id].items, track_uris)
     ELSE /\ Items(playlist_id) = AsItems(track_uris)
          /\ count = Len(track_uris)
ServiceDone == Service /\ pc = "done" /\ ret.kind = "return"

\* C38: with update_mode replace or append and every remote call succeeding,
\* SpotifyService.create_or_update_playlist and CreatePlaylistHandler.handle
\* produce the same outcome from the same name, tracks and remote state:
\* the same was_updated flag, the same tracks in the playlist, the same
\* number of tracks added
C38_EntryPointsAgree ==
  /\ (ServiceDone /\ AllOk(calls) /\ request.update_mode \in {"replace", "append"}) =>
       SameOutcome(ret.value.was_updated, ret.value.added_count)
  /\ (HandlerSuccess /\ AllOk(calls) /\ request.update_mode \in {"replace", "append"}) =>
       SameOutcome(response.was_updated, response.tracks_added)

\* ---------------------------------------------------------------------------
Repository == entry = "CachedPlaylistRepository.find_by_name"
\* C39: against an unchanged remote playlist list, two consecutive calls of
\* CachedPlaylistRepository.find_by_name with the same name that both return
\* return the same result, the same playlist or not-found both times,
\* whatever the letter case of the name
C39_FindByNameConsistent ==
  [][(Repository /\ ret.kind = "return" /\ ret'.kind = "return" /\ round' = round + 1)
       => ret'.value = ret.value]_vars

\* ---------------------------------------------------------------------------
Parsed == entry = "KworbChartParser._extract_entries" /\ pc = "done" /\ ret.kind = "return"
HasTrackLink(row) == \E k \in 1..Len(row) : row[k] # <<>> /\ row[k][1] = "../track/"
TrackIds(es) == [k \in 1..Len(es) |-> es[k].track_id]
\* C40: _extract_entries returns the first limit rows of the table that
\* contain a track link, in page order, exactly limit of them when the table
\* holds that many, even after rows without a track link; it never returns
\* more than limit entries and every position is at least 1
C40_FirstLimitTracks ==
  Parsed =>
    LET linked == SelectSeq(table.rows, HasTrackLink)
        first == SubSeq(linked, 1, Min(row_limit, Len(linked)))
    IN  /\ TrackIds(ret.value) = [k \in 1..Len(first) |-> _extract_track_id(first[k])]
        /\ Len(ret.value) <= row_limit
        /\ \A k \in 1..Len(ret.value) : ret.value[k].position >= 1
====
